---------------------------- MODULE Spec2Model ----------------------------
(***************************************************************************)
(* Model of the EquationResolver of kob-query-resolver together with its   *)
(* ValidationEngine and ComputationEngine.                                 *)
(*                                                                         *)
(* JavaScript strings are sequences of one-character strings, so that the  *)
(* textual conversions of the code (String(), Number(), trim(), regular    *)
(* expressions, placeholder substitution, and the evaluation of the        *)
(* substituted text by `new Function`) are computed character by           *)
(* character.  Property names (criterion ids, record fields, function      *)
(* names) are JavaScript strings too.                                      *)
(***************************************************************************)
EXTENDS Integers, Sequences, FiniteSets, TLC

VARIABLES criteriaConfigs, translations, functions, snapshot, call, result

vars == <<criteriaConfigs, translations, functions, snapshot, call, result>>

(***************************************************************************)
(* Characters                                                              *)
(***************************************************************************)
DigitSeq == <<"0", "1", "2", "3", "4", "5", "6", "7", "8", "9">>

LowerSeq == <<"a", "b", "c", "d", "e", "f", "g", "h", "i", "j", "k", "l", "m",
              "n", "o", "p", "q", "r", "s", "t", "u", "v", "w", "x", "y", "z">>

UpperSeq == <<"A", "B", "C", "D", "E", "F", "G", "H", "I", "J", "K", "L", "M",
              "N", "O", "P", "Q", "R", "S", "T", "U", "V", "W", "X", "Y", "Z">>

Range(f) == {f[i] : i \in DOMAIN f}

DigitChars == Range(DigitSeq)

LetterChars == Range(LowerSeq) \cup Range(UpperSeq)

\* \w of the regular expressions
WordChars == LetterChars \cup DigitChars \cup {"_"}

WhiteChars == {" "}

DigitVal(c) == (CHOOSE i \in DOMAIN DigitSeq : DigitSeq[i] = c) - 1

\* String.prototype.toLowerCase, one character
LowerChar(c) ==
    IF c \in Range(UpperSeq)
    THEN LowerSeq[CHOOSE i \in DOMAIN UpperSeq : UpperSeq[i] = c]
    ELSE c

toLowerCase(s) == [i \in 1..Len(s) |-> LowerChar(s[i])]

\* order of the UTF-16 code units of the characters the model uses
CodeOrder == <<" ", "!", "\"", "&", "-", ".">> \o DigitSeq \o <<"<", "=", ">">>
             \o UpperSeq \o <<"_">> \o LowerSeq \o <<"{", "|", "}">>

CharCode(c) == CHOOSE i \in DOMAIN CodeOrder : CodeOrder[i] = c

Alphabet == Range(CodeOrder)

(***************************************************************************)
(* Values: the JavaScript values the model handles.  Every value has the   *)
(* same fields so that any two of them can be compared.                    *)
(*   num   m * 10^(-e), normalised (e = 0 or m not a multiple of 10)       *)
(*   nan   NaN            str   s            bool  m = 1 for true          *)
(*   null, undef          fn    the function object named s of a registry  *)
(*   arr   the array object of identity m whose items are the              *)
(*         one-character strings of s                                      *)
(***************************************************************************)
RECURSIVE Pow10(_)
Pow10(n) == IF n = 0 THEN 1 ELSE 10 * Pow10(n - 1)

RECURSIVE NormNum(_, _)
NormNum(m, e) ==
    IF e > 0 /\ (IF m < 0 THEN -m ELSE m) % 10 = 0
    THEN NormNum(m \div 10, e - 1)
    ELSE [t |-> "num", m |-> m, e |-> e, s |-> <<>>]

Num(m) == [t |-> "num", m |-> m, e |-> 0, s |-> <<>>]
Dec(m, e) == NormNum(m, e)
NaN == [t |-> "nan", m |-> 0, e |-> 0, s |-> <<>>]
Str(s) == [t |-> "str", m |-> 0, e |-> 0, s |-> s]
Bool(b) == [t |-> "bool", m |-> IF b THEN 1 ELSE 0, e |-> 0, s |-> <<>>]
Null == [t |-> "null", m |-> 0, e |-> 0, s |-> <<>>]
Undefined == [t |-> "undef", m |-> 0, e |-> 0, s |-> <<>>]
Fn(name) == [t |-> "fn", m |-> 0, e |-> 0, s |-> name]
Arr(ref, items) == [t |-> "arr", m |-> ref, e |-> 0, s |-> items]

\* Array.isArray(v)
IsArray(v) == v.t = "arr"

\* the items of an array
Items(v) == [i \in 1..Len(v.s) |-> Str(<<v.s[i]>>)]

\* typeof v
typeof(v) ==
    CASE v.t \in {"num", "nan"} -> "number"
      [] v.t = "str" -> "string"
      [] v.t = "bool" -> "boolean"
      [] v.t = "undef" -> "undefined"
      [] v.t = "fn" -> "function"
      [] OTHER -> "object"

IsNullish(v) == v.t \in {"null", "undef"}

\* Boolean(v)
Truthy(v) ==
    CASE v.t = "num" -> v.m # 0
      [] v.t = "str" -> Len(v.s) > 0
      [] v.t = "bool" -> v.m = 1
      [] v.t \in {"fn", "arr"} -> TRUE
      [] OTHER -> FALSE

\* a < b, a <= b on two num values
Scaled(a, e) == a.m * Pow10(e - a.e)
MaxE(a, b) == IF a.e > b.e THEN a.e ELSE b.e
NumLt(a, b) == Scaled(a, MaxE(a, b)) < Scaled(b, MaxE(a, b))
NumLe(a, b) == Scaled(a, MaxE(a, b)) <= Scaled(b, MaxE(a, b))
NumSub(a, b) == NormNum(Scaled(a, MaxE(a, b)) - Scaled(b, MaxE(a, b)), MaxE(a, b))
NumNeg(a) == [a EXCEPT !.m = -a.m]

(***************************************************************************)
(* String() and Number()                                                   *)
(***************************************************************************)
RECURSIVE NatToChars(_)
NatToChars(n) ==
    IF n < 10 THEN <<DigitSeq[n + 1]>>
    ELSE NatToChars(n \div 10) \o <<DigitSeq[(n % 10) + 1]>>

RECURSIVE PadZeros(_, _)
PadZeros(s, n) == IF Len(s) >= n THEN s ELSE PadZeros(<<"0">> \o s, n)

\* Number.prototype.toString of a num value (decimal notation)
NumToChars(v) ==
    LET a == IF v.m < 0 THEN -v.m ELSE v.m
        sign == IF v.m < 0 THEN <<"-">> ELSE <<>>
        ip == NatToChars(a \div Pow10(v.e))
        fp == PadZeros(NatToChars(a % Pow10(v.e)), v.e)
    IN  IF v.e = 0 THEN sign \o ip ELSE sign \o ip \o <<".">> \o fp

\* String(v)
StringOf(v) ==
    CASE v.t = "num" -> NumToChars(v)
      [] v.t = "nan" -> <<"N", "a", "N">>
      [] v.t = "str" -> v.s
      [] v.t = "bool" -> IF v.m = 1 THEN <<"t", "r", "u", "e">>
                         ELSE <<"f", "a", "l", "s", "e">>
      [] v.t = "null" -> <<"n", "u", "l", "l">>
      [] v.t = "arr" -> [i \in 1..(2 * Len(v.s) - (IF Len(v.s) > 0 THEN 1 ELSE 0)) |->
                            IF i % 2 = 1 THEN v.s[(i + 1) \div 2] ELSE ","]
      [] OTHER -> <<"u", "n", "d", "e", "f", "i", "n", "e", "d">>

RECURSIVE TrimStart(_)
TrimStart(s) ==
    IF Len(s) > 0 /\ Head(s) \in WhiteChars THEN TrimStart(Tail(s)) ELSE s

RECURSIVE TrimEnd(_)
TrimEnd(s) ==
    IF Len(s) > 0 /\ s[Len(s)] \in WhiteChars
    THEN TrimEnd(SubSeq(s, 1, Len(s) - 1)) ELSE s

\* String.prototype.trim
trim(s) == TrimEnd(TrimStart(s))

AllDigits(s) == \A i \in 1..Len(s) : s[i] \in DigitChars

RECURSIVE DigitsVal(_)
DigitsVal(s) ==
    IF Len(s) = 0 THEN 0
    ELSE 10 * DigitsVal(SubSeq(s, 1, Len(s) - 1)) + DigitVal(s[Len(s)])

HasChar(s, c) == \E i \in 1..Len(s) : s[i] = c
FirstIndex(s, c) == CHOOSE i \in 1..Len(s) : s[i] = c /\ \A j \in 1..(i - 1) : s[j] # c

\* an unsigned decimal literal: digits, digits. , digits.digits , .digits
IsUnsignedDecimal(s) ==
    IF HasChar(s, ".")
    THEN LET d == FirstIndex(s, ".")
             ip == SubSeq(s, 1, d - 1)
             fp == SubSeq(s, d + 1, Len(s))
         IN  AllDigits(ip) /\ AllDigits(fp) /\ Len(ip) + Len(fp) > 0
    ELSE Len(s) > 0 /\ AllDigits(s)

UnsignedDecimalVal(s) ==
    IF HasChar(s, ".")
    THEN LET d == FirstIndex(s, ".")
             ip == SubSeq(s, 1, d - 1)
             fp == SubSeq(s, d + 1, Len(s))
         IN  NormNum(DigitsVal(ip \o fp), Len(fp))
    ELSE Num(DigitsVal(s))

\* Number(s) for a string s: white space is trimmed, the empty string is 0,
\* a signed decimal literal is its value, anything else is NaN
NumberOfChars(s) ==
    LET t == trim(s)
        signed == Len(t) > 0 /\ Head(t) \in {"-", "+"}
        body == IF signed THEN Tail(t) ELSE t
    IN  IF Len(t) = 0 THEN Num(0)
        ELSE IF ~IsUnsignedDecimal(body) THEN NaN
        ELSE IF signed /\ Head(t) = "-" THEN NumNeg(UnsignedDecimalVal(body))
        ELSE UnsignedDecimalVal(body)

\* Number(v)
NumberOf(v) ==
    CASE v.t \in {"num", "nan"} -> v
      [] v.t = "str" -> NumberOfChars(v.s)
      [] v.t = "bool" -> Num(v.m)
      [] v.t = "null" -> Num(0)
      [] OTHER -> NaN

\* /^-?\d+(\.\d+)?$/.test(s)
MatchesNumberPattern(s) ==
    LET body == IF Len(s) > 0 /\ Head(s) = "-" THEN Tail(s) ELSE s
    IN  IF HasChar(body, ".")
        THEN LET d == FirstIndex(body, ".")
                 ip == SubSeq(body, 1, d - 1)
                 fp == SubSeq(body, d + 1, Len(body))
             IN  Len(ip) > 0 /\ AllDigits(ip) /\ Len(fp) > 0 /\ AllDigits(fp)
        ELSE Len(body) > 0 /\ AllDigits(body)

\* s.replace(/[^\d.-]/g, '')
StripNonNumeric(s) == SelectSeq(s, LAMBDA c : c \in DigitChars \cup {".", "-"})

(***************************************************************************)
(* Property names                                                          *)
(***************************************************************************)
N_empty == <<>>
N_a == <<"a">>
N_b == <<"b">>
N_x == <<"x">>
N_name == <<"n", "a", "m", "e">>
N_sum == <<"s", "u", "m">>
N_avg == <<"a", "v", "g">>
N_max == <<"m", "a", "x">>
N_min == <<"m", "i", "n">>
N_abs == <<"a", "b", "s">>
N_round == <<"r", "o", "u", "n", "d">>
N_ceil == <<"c", "e", "i", "l">>
N_floor == <<"f", "l", "o", "o", "r">>
N_count == <<"c", "o", "u", "n", "t">>
N_unique == <<"u", "n", "i", "q", "u", "e">>
N_filter == <<"f", "i", "l", "t", "e", "r">>
N_isEmpty == <<"i", "s", "E", "m", "p", "t", "y">>
N_isNumber == <<"i", "s", "N", "u", "m", "b", "e", "r">>
N_isString == <<"i", "s", "S", "t", "r", "i", "n", "g">>
N_isBoolean == <<"i", "s", "B", "o", "o", "l", "e", "a", "n">>
N_isArray == <<"i", "s", "A", "r", "r", "a", "y">>
N_concat == <<"c", "o", "n", "c", "a", "t">>
N_toLowerCase == <<"t", "o", "L", "o", "w", "e", "r", "C", "a", "s", "e">>
N_toUpperCase == <<"t", "o", "U", "p", "p", "e", "r", "C", "a", "s", "e">>
N_trim == <<"t", "r", "i", "m">>
N_now == <<"n", "o", "w">>
N_isToday == <<"i", "s", "T", "o", "d", "a", "y">>
N_daysBetween == <<"d", "a", "y", "s", "B", "e", "t", "w", "e", "e", "n">>
N_double == <<"d", "o", "u", "b", "l", "e">>
N_notEmpty == <<"n", "o", "t", "E", "m", "p", "t", "y">>
N_isNull == <<"i", "s", "N", "u", "l", "l">>
N_isUndefined == <<"i", "s", "U", "n", "d", "e", "f", "i", "n", "e", "d">>
N_isDefined == <<"i", "s", "D", "e", "f", "i", "n", "e", "d">>
N_startsWith == <<"s", "t", "a", "r", "t", "s", "W", "i", "t", "h">>
N_endsWith == <<"e", "n", "d", "s", "W", "i", "t", "h">>
N_includes == <<"i", "n", "c", "l", "u", "d", "e", "s">>
N_contains == <<"c", "o", "n", "t", "a", "i", "n", "s">>
N_any == <<"a", "n", "y">>
N_all == <<"a", "l", "l">>
N_isObject == <<"i", "s", "O", "b", "j", "e", "c", "t">>
N_gt == <<"g", "t">>
N_gte == <<"g", "t", "e">>
N_lt == <<"l", "t">>
N_lte == <<"l", "t", "e">>
N_eq == <<"e", "q">>
N_neq == <<"n", "e", "q">>
N_isWeekend == <<"i", "s", "W", "e", "e", "k", "e", "n", "d">>
N_match == <<"m", "a", "t", "c", "h">>
N_emptyFn == <<"e", "m", "p", "t", "y">>
N_toString == <<"t", "o", "S", "t", "r", "i", "n", "g">>

\* the functions the ComputationEngine constructor installs
BuiltinNames ==
    {N_sum, N_avg, N_max, N_min, N_abs, N_round, N_ceil, N_floor,
     N_count, N_unique, N_filter,
     N_isEmpty, N_isNumber, N_isString, N_isBoolean, N_isArray,
     N_concat, N_toLowerCase, N_toUpperCase, N_trim,
     N_now, N_isToday, N_daysBetween}

\* names every object inherits from Object.prototype: functions[name] is
\* truthy for them although the registry has no such entry of its own
InheritedNames == {N_toString}

\* a registry entry: the function object, identified by who supplied it
BuiltinFn(name) == Fn(<<"b", ":">> \o name)
CustomFn(tag, name) == Fn(<<tag, ":">> \o name)

\* record[key], undefined when the record has no such property
Get(record, key) == IF key \in DOMAIN record THEN record[key] ELSE Undefined

EmptyRecord == [k \in {} |-> Undefined]

\* Object.assign(target, source)
Assign(target, source) ==
    [k \in DOMAIN target \cup DOMAIN source |->
        IF k \in DOMAIN source THEN source[k] ELSE target[k]]

(***************************************************************************)
(* Rules and criterion configurations                                      *)
(***************************************************************************)
Rule(type) == [type |-> type, min |-> Null, max |-> Null, value |-> Null,
               values |-> <<>>, validator |-> "none"]
RuleBetween(lo, hi) == [Rule("between") EXCEPT !.min = lo, !.max = hi]
RuleCompare(type, v) == [Rule(type) EXCEPT !.value = v]
RuleValues(type, vs) == [Rule(type) EXCEPT !.values = vs]
RuleCustom(validator) == [Rule("custom") EXCEPT !.validator = validator]

\* computeValue is "none" when the config has no derivation; equation is the
\* empty string when the config has no equation of its own
Config(id, hasRules, rules, derivation, equation) ==
    [id |-> id, hasRules |-> hasRules, rules |-> rules,
     computeValue |-> derivation, equation |-> equation]

\* what a call of a caller-supplied function gives: a value or an exception
Returns(v) == [ok |-> TRUE, val |-> v]
Throws == [ok |-> FALSE, val |-> Undefined]

\* the derivations (config.computeValue) the model configures:
\*   field_b    data => data.b
\*   trim_b     data => data.b.trim()        (throws unless b is a string)
\*   const_12   () => '12'
\*   const_5    () => 5
\*   throws     () => { throw new Error() }
\*   flaky      a derivation with a state of its own that returns 12 until
\*              it starts to throw; it is given here while it returns
ApplyDerivation(d, data) ==
    CASE d = "field_b" -> Returns(Get(data, N_b))
      [] d = "trim_b" -> IF Get(data, N_b).t = "str"
                         THEN Returns(Str(trim(Get(data, N_b).s)))
                         ELSE Throws
      [] d = "const_12" -> Returns(Str(<<"1", "2">>))
      [] d = "const_5" -> Returns(Num(5))
      [] d = "flaky" -> Returns(Num(12))
      [] OTHER -> Throws

\* the custom validators (rule.validator) the model configures:
\*   lengthGe2  value => value.length >= 2   (throws on null and undefined)
\*   throws     () => { throw new Error() }
ApplyValidator(f, value) ==
    CASE f = "lengthGe2" -> IF IsNullish(value) THEN Throws
                            ELSE Returns(Bool(value.t \in {"str", "arr"}
                                              /\ Len(value.s) >= 2))
      [] OTHER -> Throws

(***************************************************************************)
(* ValidationEngine                                                        *)
(***************************************************************************)
validateExists(value) == ~IsNullish(value)

\* Array.prototype.includes compares with SameValueZero: two numbers, two
\* strings or two booleans are the same when they are equal, two arrays when
\* they are the same object
SameValueZero(x, y) == x = y

includes(list, value) ==
    \E i \in 1..Len(list) : SameValueZero(list[i], value)

validateIn(value, allowedValues) == includes(allowedValues, value)

\* requiredValues.every(v => value.includes(v))
validateIncludes(value, requiredValues) ==
    \A i \in 1..Len(requiredValues) : includes(Items(value), requiredValues[i])

\* value >= min && value <= max, a comparison with NaN being false
validateBetween(value, min, max) ==
    /\ value.t = "num" /\ min.t = "num" /\ max.t = "num"
    /\ NumLe(min, value) /\ NumLe(value, max)

validateType(value, type) ==
    CASE type = "number" -> typeof(value) = "number" /\ value.t # "nan"
      [] type = "array" -> IsArray(value)
      [] type = "string" -> typeof(value) = "string"
      [] type = "boolean" -> typeof(value) = "boolean"
      [] OTHER -> FALSE

validateComparison(value, compareValue, operator) ==
    /\ value.t = "num" /\ compareValue.t = "num"
    /\ CASE operator = "gt" -> NumLt(compareValue, value)
         [] operator = "gte" -> NumLe(compareValue, value)
         [] operator = "lt" -> NumLt(value, compareValue)
         [] operator = "lte" -> NumLe(value, compareValue)
         [] OTHER -> FALSE

\* the outcome of validateRule: ok with the returned boolean, or the message
\* of the exception it raised
RuleOutcome(pass) == [ok |-> TRUE, pass |-> pass, message |-> <<>>]
RuleRaises(message) == [ok |-> FALSE, pass |-> FALSE, message |-> message]

validateRule(value, rule) ==
    CASE rule.type = "exists" -> RuleOutcome(validateExists(value))
      [] rule.type = "in" -> RuleOutcome(validateIn(value, rule.values))
      [] rule.type = "between" ->
            RuleOutcome(typeof(value) = "number"
                        /\ validateBetween(value, rule.min, rule.max))
      [] rule.type = "includes" ->
            RuleOutcome(IsArray(value) /\ validateIncludes(value, rule.values))
      [] rule.type \in {"number", "array", "string", "boolean"} ->
            RuleOutcome(validateType(value, rule.type))
      [] rule.type \in {"gt", "gte", "lt", "lte"} ->
            RuleOutcome(typeof(value) = "number"
                        /\ validateComparison(value, rule.value, rule.type))
      [] rule.type = "eq" -> RuleOutcome(value = rule.value /\ value.t # "nan")
      [] rule.type = "custom" ->
            LET r == ApplyValidator(rule.validator, value)
            IN  IF r.ok THEN RuleOutcome(Truthy(r.val))
                ELSE RuleRaises(<<"validator failed">>)
      [] OTHER -> RuleRaises(<<"Invalid rule type">>)

getErrorKey(rule) ==
    CASE rule.type = "exists" -> "errors.criteriaExists"
      [] rule.type = "in" -> "errors.criteriaIn"
      [] rule.type = "between" -> "errors.betweenRange"
      [] rule.type = "includes" -> "errors.criteriaIncludes"
      [] rule.type = "number" -> "errors.numberType"
      [] rule.type = "array" -> "errors.criteriaArray"
      [] rule.type = "string" -> "errors.stringType"
      [] rule.type = "boolean" -> "errors.booleanType"
      [] rule.type = "gt" -> "errors.greaterThan"
      [] rule.type = "gte" -> "errors.greaterThanEqual"
      [] rule.type = "lt" -> "errors.lessThan"
      [] rule.type = "lte" -> "errors.lessThanEqual"
      [] rule.type = "eq" -> "errors.equalTo"
      [] rule.type = "custom" -> "errors.customValidationFailed"
      [] OTHER -> "errors.unknown"

(***************************************************************************)
(* The expression language: what `new Function` does with the text it is   *)
(* given.  The model covers the expressions made of number and string      *)
(* literals, true, false, null, identifiers, the unary operators ! and -,  *)
(* and the binary operators || && == != === !== < <= > >= -.  A text that  *)
(* uses anything else of JavaScript is reported as "unsup" rather than     *)
(* being given a meaning; FragmentCovered states that no call of the       *)
(* model evaluates such a text.                                            *)
(***************************************************************************)
W_true == <<"t", "r", "u", "e">>
W_false == <<"f", "a", "l", "s", "e">>
W_null == <<"n", "u", "l", "l">>
W_undefined == <<"u", "n", "d", "e", "f", "i", "n", "e", "d">>
W_NaN == <<"N", "a", "N">>

ReservedWords ==
    {<<"b", "r", "e", "a", "k">>, <<"c", "a", "s", "e">>, <<"c", "a", "t", "c", "h">>,
     <<"c", "l", "a", "s", "s">>, <<"c", "o", "n", "s", "t">>, <<"c", "o", "n", "t", "i", "n", "u", "e">>,
     <<"d", "e", "b", "u", "g", "g", "e", "r">>, <<"d", "e", "f", "a", "u", "l", "t">>, <<"d", "e", "l", "e", "t", "e">>,
     <<"d", "o">>, <<"e", "l", "s", "e">>, <<"e", "n", "u", "m">>,
     <<"e", "x", "p", "o", "r", "t">>, <<"e", "x", "t", "e", "n", "d", "s">>, <<"f", "i", "n", "a", "l", "l", "y">>,
     <<"f", "o", "r">>, <<"f", "u", "n", "c", "t", "i", "o", "n">>, <<"i", "f">>,
     <<"i", "m", "p", "o", "r", "t">>, <<"i", "n">>, <<"i", "n", "s", "t", "a", "n", "c", "e", "o", "f">>,
     <<"n", "e", "w">>, <<"r", "e", "t", "u", "r", "n">>, <<"s", "u", "p", "e", "r">>,
     <<"s", "w", "i", "t", "c", "h">>, <<"t", "h", "i", "s">>, <<"t", "h", "r", "o", "w">>,
     <<"t", "r", "y">>, <<"t", "y", "p", "e", "o", "f">>, <<"v", "a", "r">>,
     <<"v", "o", "i", "d">>, <<"w", "h", "i", "l", "e">>, <<"w", "i", "t", "h">>,
     <<"l", "e", "t">>, <<"s", "t", "a", "t", "i", "c">>, <<"y", "i", "e", "l", "d">>,
     <<"a", "w", "a", "i", "t">>}

\* properties of the global object other than undefined and NaN
GlobalNames ==
    {<<"I", "n", "f", "i", "n", "i", "t", "y">>, <<"B", "o", "o", "l", "e", "a", "n">>, <<"N", "u", "m", "b", "e", "r">>,
     <<"S", "t", "r", "i", "n", "g">>, <<"O", "b", "j", "e", "c", "t">>, <<"A", "r", "r", "a", "y">>,
     <<"M", "a", "t", "h">>, <<"D", "a", "t", "e">>, <<"J", "S", "O", "N">>,
     <<"F", "u", "n", "c", "t", "i", "o", "n">>, <<"S", "y", "m", "b", "o", "l">>, <<"R", "e", "g", "E", "x", "p">>,
     <<"E", "r", "r", "o", "r">>, <<"M", "a", "p">>, <<"S", "e", "t">>,
     <<"e", "v", "a", "l">>, <<"i", "s", "N", "a", "N">>, <<"i", "s", "F", "i", "n", "i", "t", "e">>,
     <<"p", "a", "r", "s", "e", "I", "n", "t">>, <<"p", "a", "r", "s", "e", "F", "l", "o", "a", "t">>, <<"g", "l", "o", "b", "a", "l", "T", "h", "i", "s">>,
     <<"a", "r", "g", "u", "m", "e", "n", "t", "s">>, <<"c", "o", "n", "s", "o", "l", "e">>, <<"p", "r", "o", "c", "e", "s", "s">>,
     <<"r", "e", "q", "u", "i", "r", "e">>, <<"m", "o", "d", "u", "l", "e">>}

\* a name that `new Function` accepts as a parameter name
IsIdentifierName(k) ==
    /\ Len(k) > 0
    /\ k[1] \in LetterChars \cup {"_", "$"}
    /\ \A i \in 1..Len(k) : k[i] \in WordChars \cup {"$"}
    /\ k \notin ReservedWords \cup {W_true, W_false, W_null}

Tok(k, v) == [k |-> k, v |-> v]

\* a call of a function whose body never ends
LoopText ==
    <<"(", "(", ")", " ", "=", ">", " ", "{", " ", "w", "h", "i", "l", "e", " ",
      "(", "t", "r", "u", "e", ")", " ", "{", "}", " ", "}", ")", "(", ")">>

\* the end of the longest run of characters of set cs that starts at i
\* (i - 1 when s[i] is not in cs)
RECURSIVE RunEnd(_, _, _)
RunEnd(s, i, cs) ==
    IF i <= Len(s) /\ s[i] \in cs THEN RunEnd(s, i + 1, cs) ELSE i - 1

\* the position before the next double quote at or after i
RECURSIVE StringEnd(_, _)
StringEnd(s, i) ==
    IF i <= Len(s) /\ s[i] # "\"" THEN StringEnd(s, i + 1) ELSE i - 1

At(s, i) == IF i >= 1 /\ i <= Len(s) THEN s[i] ELSE ""

\* the token that starts at position i and the position after it
NextToken(s, i) ==
    LET c == s[i]
        c1 == At(s, i + 1)
        c2 == At(s, i + 2)
    IN  CASE /\ i + Len(LoopText) - 1 <= Len(s)
             /\ SubSeq(s, i, i + Len(LoopText) - 1) = LoopText ->
               [tok |-> Tok("loop", LoopText), next |-> i + Len(LoopText)]
          [] c \in DigitChars \/ (c = "." /\ c1 \in DigitChars) ->
               LET ie == RunEnd(s, i, DigitChars)
                   fe == IF At(s, ie + 1) = "."
                         THEN RunEnd(s, ie + 2, DigitChars) ELSE ie
                   lex == SubSeq(s, i, fe)
                   after == At(s, fe + 1)
               IN  IF after \in WordChars \cup {"$"}
                   THEN [tok |-> Tok("bad", lex), next |-> fe + 1]
                   ELSE IF Len(lex) > 1 /\ lex[1] = "0" /\ lex[2] \in DigitChars
                   THEN [tok |-> Tok("unsup", lex), next |-> fe + 1]
                   ELSE [tok |-> Tok("num", lex), next |-> fe + 1]
          [] c = "\"" ->
               LET e == StringEnd(s, i + 1)
               IN  IF At(s, e + 1) = "\""
                   THEN [tok |-> Tok("str", SubSeq(s, i + 1, e)), next |-> e + 2]
                   ELSE [tok |-> Tok("bad", <<>>), next |-> Len(s) + 1]
          [] c \in LetterChars \cup {"_"} ->
               LET e == RunEnd(s, i, WordChars)
               IN  [tok |-> Tok("id", SubSeq(s, i, e)), next |-> e + 1]
          [] c = "=" /\ c1 = "=" /\ c2 = "=" -> [tok |-> Tok("===", <<>>), next |-> i + 3]
          [] c = "=" /\ c1 = "=" /\ c2 # "=" -> [tok |-> Tok("==", <<>>), next |-> i + 2]
          [] c = "!" /\ c1 = "=" /\ c2 = "=" -> [tok |-> Tok("!==", <<>>), next |-> i + 3]
          [] c = "!" /\ c1 = "=" /\ c2 # "=" -> [tok |-> Tok("!=", <<>>), next |-> i + 2]
          [] c = "!" /\ c1 # "=" -> [tok |-> Tok("!", <<>>), next |-> i + 1]
          [] c = ">" /\ c1 = "=" -> [tok |-> Tok(">=", <<>>), next |-> i + 2]
          [] c = ">" /\ c1 \notin {"=", ">"} -> [tok |-> Tok(">", <<>>), next |-> i + 1]
          [] c = "<" /\ c1 = "=" -> [tok |-> Tok("<=", <<>>), next |-> i + 2]
          [] c = "<" /\ c1 \notin {"=", "<"} -> [tok |-> Tok("<", <<>>), next |-> i + 1]
          [] c = "|" /\ c1 = "|" /\ c2 # "=" -> [tok |-> Tok("||", <<>>), next |-> i + 2]
          [] c = "&" /\ c1 = "&" /\ c2 # "=" -> [tok |-> Tok("&&", <<>>), next |-> i + 2]
          [] c = "-" /\ c1 \notin {"-", "="} -> [tok |-> Tok("-", <<>>), next |-> i + 1]
          [] OTHER -> [tok |-> Tok("unsup", <<c>>), next |-> i + 1]

RECURSIVE LexFrom(_, _)
LexFrom(s, i) ==
    IF i > Len(s) THEN <<>>
    ELSE IF s[i] \in WhiteChars THEN LexFrom(s, i + 1)
    ELSE LET t == NextToken(s, i) IN <<t.tok>> \o LexFrom(s, t.next)

Lex(s) == LexFrom(s, 1)

BinaryOps == {"||", "&&", "==", "!=", "===", "!==", "<", "<=", ">", ">=", "-"}

Prec(op) ==
    CASE op = "||" -> 1
      [] op = "&&" -> 2
      [] op \in {"==", "!=", "===", "!=="} -> 3
      [] op \in {"<", "<=", ">", ">="} -> 4
      [] OTHER -> 5

ParseFail == [ok |-> FALSE, node |-> [op |-> "none"], pos |-> 0]
Parsed(node, pos) == [ok |-> TRUE, node |-> node, pos |-> pos]

ParsePrimary(toks, i) ==
    IF i > Len(toks) THEN ParseFail
    ELSE LET t == toks[i]
         IN  CASE t.k = "num" ->
                    Parsed([op |-> "lit", val |-> UnsignedDecimalVal(t.v)], i + 1)
               [] t.k = "str" -> Parsed([op |-> "lit", val |-> Str(t.v)], i + 1)
               [] t.k = "id" /\ t.v = W_true ->
                    Parsed([op |-> "lit", val |-> Bool(TRUE)], i + 1)
               [] t.k = "id" /\ t.v = W_false ->
                    Parsed([op |-> "lit", val |-> Bool(FALSE)], i + 1)
               [] t.k = "id" /\ t.v = W_null ->
                    Parsed([op |-> "lit", val |-> Null], i + 1)
               [] t.k = "id" /\ t.v \notin {W_true, W_false, W_null} ->
                    Parsed([op |-> "id", name |-> t.v], i + 1)
               [] t.k = "loop" -> Parsed([op |-> "loop"], i + 1)
               [] OTHER -> ParseFail

RECURSIVE ParseUnary(_, _)
ParseUnary(toks, i) ==
    IF i <= Len(toks) /\ toks[i].k \in {"!", "-"}
    THEN LET r == ParseUnary(toks, i + 1)
         IN  IF r.ok
             THEN Parsed([op |-> IF toks[i].k = "!" THEN "not" ELSE "neg",
                          a |-> r.node], r.pos)
             ELSE ParseFail
    ELSE ParsePrimary(toks, i)

RECURSIVE ParseExpr(_, _, _)
RECURSIVE ParseRest(_, _, _, _)
ParseExpr(toks, i, minPrec) ==
    LET u == ParseUnary(toks, i)
    IN  IF u.ok THEN ParseRest(toks, u.node, u.pos, minPrec) ELSE ParseFail

ParseRest(toks, left, i, minPrec) ==
    IF i <= Len(toks) /\ toks[i].k \in BinaryOps /\ Prec(toks[i].k) >= minPrec
    THEN LET r == ParseExpr(toks, i + 1, Prec(toks[i].k) + 1)
         IN  IF r.ok
             THEN ParseRest(toks, [op |-> toks[i].k, a |-> left, b |-> r.node],
                            r.pos, minPrec)
             ELSE ParseFail
    ELSE Parsed(left, i)

\* the text uses JavaScript the model gives no meaning to
UsesUnsupported(text) ==
    LET toks == Lex(text)
    IN  \E i \in 1..Len(toks) :
            \/ toks[i].k = "unsup"
            \/ toks[i].k = "id" /\ toks[i].v \in ReservedWords \cup GlobalNames

\* the parse of a whole token list: it fails when tokens are left over
WholeParse(p, n) == IF p.ok /\ p.pos = n + 1 THEN p ELSE ParseFail

ParseTokens(toks) == WholeParse(ParseExpr(toks, 1, 1), Len(toks))

\* the text is one expression of the language
ParsesAsExpression(text) == ParseTokens(Lex(text)).ok

\* a < b for two strings: comparison of the code units
RECURSIVE StrLt(_, _)
StrLt(a, b) ==
    IF Len(b) = 0 THEN FALSE
    ELSE IF Len(a) = 0 THEN TRUE
    ELSE IF Head(a) = Head(b) THEN StrLt(Tail(a), Tail(b))
    ELSE CharCode(Head(a)) < CharCode(Head(b))

\* a === b
StrictEq(a, b) == a = b /\ a.t # "nan"

\* a == b
LooseEq(a, b) ==
    LET x == IF a.t = "bool" THEN Num(a.m) ELSE a
        y == IF b.t = "bool" THEN Num(b.m) ELSE b
    IN  CASE IsNullish(x) \/ IsNullish(y) -> IsNullish(x) /\ IsNullish(y)
          [] x.t = "fn" \/ y.t = "fn" -> x = y
          [] x.t = "str" /\ y.t = "str" -> x = y
          [] OTHER -> StrictEq(NumberOf(x), NumberOf(y))

\* x < y and x <= y for two numbers, false when one is NaN
NumbersLt(x, y) == x.t = "num" /\ y.t = "num" /\ NumLt(x, y)
NumbersLe(x, y) == x.t = "num" /\ y.t = "num" /\ NumLe(x, y)

\* a < b
LessThan(a, b) ==
    IF a.t = "str" /\ b.t = "str" THEN StrLt(a.s, b.s)
    ELSE NumbersLt(NumberOf(a), NumberOf(b))

\* a <= b
LessEq(a, b) ==
    IF a.t = "str" /\ b.t = "str" THEN ~StrLt(b.s, a.s)
    ELSE NumbersLe(NumberOf(a), NumberOf(b))

\* a - b for two numbers, NaN when one is NaN
NumbersSub(x, y) == IF x.t = "num" /\ y.t = "num" THEN NumSub(x, y) ELSE NaN

\* -a for a number
NumberNeg(x) == IF x.t = "num" THEN NumNeg(x) ELSE NaN

Value(v) == [st |-> "ok", val |-> v]
Thrown == [st |-> "throw", val |-> Undefined]

\* the value of an identifier: a parameter of the generated function (a key
\* of the context), else a property of the global object, else ReferenceError
ResolveIdentifier(name, context) ==
    IF name \in DOMAIN context THEN Value(context[name])
    ELSE IF name = W_undefined THEN Value(Undefined)
    ELSE IF name = W_NaN THEN Value(NaN)
    ELSE Thrown

RECURSIVE Eval(_, _)
Eval(node, context) ==
    CASE node.op = "lit" -> Value(node.val)
      [] node.op = "id" -> ResolveIdentifier(node.name, context)
      [] node.op = "loop" -> [st |-> "diverges", val |-> Undefined]
      [] node.op = "not" ->
            LET a == Eval(node.a, context)
            IN  IF a.st = "ok" THEN Value(Bool(~Truthy(a.val))) ELSE a
      [] node.op = "neg" ->
            LET a == Eval(node.a, context)
            IN  IF a.st # "ok" THEN a ELSE Value(NumberNeg(NumberOf(a.val)))
      [] node.op = "||" ->
            LET a == Eval(node.a, context)
            IN  IF a.st = "ok" /\ ~Truthy(a.val) THEN Eval(node.b, context) ELSE a
      [] node.op = "&&" ->
            LET a == Eval(node.a, context)
            IN  IF a.st = "ok" /\ Truthy(a.val) THEN Eval(node.b, context) ELSE a
      [] OTHER ->
            LET a == Eval(node.a, context)
                b == Eval(node.b, context)
            IN  IF a.st # "ok" THEN a
                ELSE IF b.st # "ok" THEN b
                ELSE IF /\ node.op \in {"<", ">", "<=", ">="}
                        /\ "fn" \in {a.val.t, b.val.t}
                        /\ {a.val.t, b.val.t} \subseteq {"fn", "str"}
                THEN [st |-> "unsup", val |-> Undefined]
                ELSE CASE node.op = "==" -> Value(Bool(LooseEq(a.val, b.val)))
                       [] node.op = "!=" -> Value(Bool(~LooseEq(a.val, b.val)))
                       [] node.op = "===" -> Value(Bool(StrictEq(a.val, b.val)))
                       [] node.op = "!==" -> Value(Bool(~StrictEq(a.val, b.val)))
                       [] node.op = "<" -> Value(Bool(LessThan(a.val, b.val)))
                       [] node.op = ">" -> Value(Bool(LessThan(b.val, a.val)))
                       [] node.op = "<=" -> Value(Bool(LessEq(a.val, b.val)))
                       [] node.op = ">=" -> Value(Bool(LessEq(b.val, a.val)))
                       [] OTHER ->
                            Value(NumbersSub(NumberOf(a.val), NumberOf(b.val)))

EvalParsed(p, context) ==
    IF ~p.ok THEN [st |-> "syntax", val |-> Undefined] ELSE Eval(p.node, context)

\* the argument of Boolean(<text>): nothing when the text has no token, else
\* the text as one expression
EvaluateTokens(toks, context) ==
    IF Len(toks) = 0 THEN Value(Undefined)
    ELSE EvalParsed(ParseTokens(toks), context)

\* the value of the text as the argument of Boolean(...) over the context;
\* "syntax" when the text is not an expression, "throw" when its evaluation
\* raises
EvaluateText(text, context) == EvaluateTokens(Lex(text), context)

(***************************************************************************)
(* ComputationEngine                                                       *)
(***************************************************************************)
\* the registry the constructor builds
InitialFunctions == [n \in BuiltinNames |-> BuiltinFn(n)]

\* registerFunction(name, fn): refused with a plain Error when
\* this.functions[name] is truthy, else the entry is added
registerFunctionRefused(fns, name) == name \in DOMAIN fns \cup InheritedNames

registerFunction(fns, name, fn) ==
    IF registerFunctionRefused(fns, name)
    THEN [error |-> "Error", functions |-> fns]
    ELSE [error |-> "none",
          functions |-> [k \in DOMAIN fns \cup {name} |->
                            IF k = name THEN fn ELSE fns[k]]]

\* { ...this.functions, ...data }
EvaluationContext(fns, data) == Assign(fns, data)

\* a computeValue that builds its context in this.functions
RegistryAfterEvaluation_shared(fns, data) == Assign(fns, data)

\* this.functions after computeValue(expression, data): the context is a
\* new object and the registry is only read
RegistryAfterEvaluation(fns, data) == fns

(***************************************************************************)
(* EquationResolver.getAvailableFunctions.  The object it returns is kept  *)
(* with its entries, whether it is frozen, and whether it is the object    *)
(* the engine holds as its registry.                                       *)
(***************************************************************************)
NoSnapshot ==
    [taken |-> FALSE, frozen |-> FALSE, shared |-> FALSE, entries |-> EmptyRecord]

\* an accessor that returns this.computationEngine.functions itself
getAvailableFunctions_live(fns) ==
    [taken |-> TRUE, frozen |-> FALSE, shared |-> TRUE, entries |-> fns]

\* Object.freeze({ ...this.computationEngine.functions })
getAvailableFunctions(fns) ==
    [taken |-> TRUE, frozen |-> TRUE, shared |-> FALSE, entries |-> fns]

\* object[name] = fn: ignored, or a TypeError in strict code, when the
\* object is frozen
SetProperty(object, name, fn) ==
    IF object.frozen THEN object
    ELSE [object EXCEPT !.entries =
             [k \in DOMAIN object.entries \cup {name} |->
                 IF k = name THEN fn ELSE object.entries[k]]]

\* delete object[name]
DeleteProperty(object, name) ==
    IF object.frozen THEN object
    ELSE [object EXCEPT !.entries =
             [k \in DOMAIN object.entries \ {name} |-> object.entries[k]]]

\* the registry after a write to object: the same entries when object is
\* the registry itself
RegistryAfterWrite(fns, object) == IF object.shared THEN object.entries ELSE fns

\* the object after a write to the registry
SnapshotAfterRegister(object, fns) ==
    IF object.shared THEN [object EXCEPT !.entries = fns] ELSE object

\* what the generated function gives for the outcome r of the argument of
\* Boolean(...): `new Function` raises when a key of the context is not an
\* identifier or when the text does not parse; an exception of the
\* evaluation is caught inside the wrapper
WrapperOutcome(keys, r) ==
    IF \E k \in keys : ~IsIdentifierName(k) THEN Throws
    ELSE IF r.st = "syntax" THEN Throws
    ELSE IF r.st = "ok" THEN Returns(Bool(Truthy(r.val)))
    ELSE Returns(Bool(FALSE))

\* computeValue(safeExpression, data) where safeExpression is
\*   (() => { try { return Boolean(<text>); } catch (e) { return false; } })()
computeSafeExpression(fns, text, data) ==
    WrapperOutcome(DOMAIN EvaluationContext(fns, data),
                   EvaluateText(text, EvaluationContext(fns, data)))

(***************************************************************************)
(* EquationResolver                                                        *)
(***************************************************************************)
\* a map in which the first config of an id stays
RECURSIVE MapOf_keepFirst(_)
MapOf_keepFirst(list) ==
    IF Len(list) = 0 THEN <<>>
    ELSE LET init == MapOf_keepFirst(SubSeq(list, 1, Len(list) - 1))
             last == list[Len(list)]
         IN  IF \E i \in 1..Len(init) : init[i].id = last.id
             THEN init
             ELSE Append(init, last)

\* new Map(criteriaConfigs.map(config => [config.id, config])): a later
\* config replaces the earlier one of the same id, at the earlier's place
RECURSIVE MapOf(_)
MapOf(list) ==
    IF Len(list) = 0 THEN <<>>
    ELSE LET init == MapOf(SubSeq(list, 1, Len(list) - 1))
             last == list[Len(list)]
         IN  IF \E i \in 1..Len(init) : init[i].id = last.id
             THEN [i \in 1..Len(init) |->
                      IF init[i].id = last.id THEN last ELSE init[i]]
             ELSE Append(init, last)

MapHas(map, id) == \E i \in 1..Len(map) : map[i].id = id
MapGet(map, id) == map[CHOOSE i \in 1..Len(map) : map[i].id = id]

\* convertToAppropriateType(value, config, data); hasData tells whether the
\* data argument was passed.  The rule that decides the conversion is
\* rules.find(rule => rule.type), the first rule of the list.
convertToAppropriateType(value, config, data, hasData) ==
    LET derived == IF config.computeValue # "none"
                   THEN ApplyDerivation(config.computeValue,
                                        IF hasData THEN data ELSE EmptyRecord)
                   ELSE Returns(IF hasData THEN Get(data, config.id) ELSE value)
        valueToConvert == derived.val
        expectedType == IF config.hasRules /\ Len(config.rules) > 0
                        THEN config.rules[1].type ELSE "none"
        text == StringOf(valueToConvert)
        stripped == NumberOfChars(StripNonNumeric(valueToConvert.s))
    IN  IF ~derived.ok THEN Throws
        ELSE IF IsNullish(valueToConvert) THEN Returns(valueToConvert)
        ELSE IF expectedType = "number"
        THEN IF MatchesNumberPattern(trim(text))
             THEN Returns(NumberOfChars(trim(text)))
             ELSE Returns(valueToConvert)
        ELSE IF expectedType = "boolean"
        THEN IF trim(toLowerCase(text)) = W_true THEN Returns(Bool(TRUE))
             ELSE IF trim(toLowerCase(text)) = W_false THEN Returns(Bool(FALSE))
             ELSE Returns(valueToConvert)
        ELSE IF expectedType = "string" THEN Returns(Str(text))
        ELSE IF expectedType # "none" THEN Returns(valueToConvert)
        ELSE IF typeof(valueToConvert) = "string"
        THEN IF stripped.t # "nan" THEN Returns(stripped)
             ELSE IF toLowerCase(valueToConvert.s) = W_true THEN Returns(Bool(TRUE))
             ELSE IF toLowerCase(valueToConvert.s) = W_false THEN Returns(Bool(FALSE))
             ELSE Returns(valueToConvert)
        ELSE Returns(valueToConvert)

\* the outcome of a public call: a returned value or a raised error
Returned(v) == [kind |-> "value", value |-> v, error |-> "none"]
Raised(e) == [kind |-> "error", value |-> Undefined, error |-> e]

\* computeValue(criteriaId, data)
computeValue(configs, criteriaId, data) ==
    IF ~MapHas(configs, criteriaId) THEN Raised("ConfigurationError")
    ELSE LET config == MapGet(configs, criteriaId)
             r == convertToAppropriateType(Get(data, criteriaId), config, data, TRUE)
         IN  IF r.ok THEN Returned(r.val) ELSE Raised("ConfigurationError")

\* the merge environment of validateEquationExpression: the converted
\* derivation of every criterion that has one (skipped when it throws),
\* then every source in order
RECURSIVE DerivedData(_, _)
DerivedData(configs, n) ==
    IF n = 0 THEN EmptyRecord
    ELSE LET before == DerivedData(configs, n - 1)
             config == configs[n]
             r == convertToAppropriateType(Undefined, config, EmptyRecord, FALSE)
         IN  IF Len(config.id) > 0 /\ config.computeValue # "none" /\ r.ok
             THEN Assign(before, [k \in {config.id} |-> r.val])
             ELSE before

\* the sources merged so that what is already there is kept
RECURSIVE AssignAll_keepFirst(_, _)
AssignAll_keepFirst(target, sources) ==
    IF Len(sources) = 0 THEN target
    ELSE AssignAll_keepFirst(Assign(Head(sources), target), Tail(sources))

\* for (const source of additionalDataSources) Object.assign(mergedData, source)
RECURSIVE AssignAll(_, _)
AssignAll(target, sources) ==
    IF Len(sources) = 0 THEN target
    ELSE AssignAll(Assign(target, Head(sources)), Tail(sources))

MergedData(configs, sources) ==
    AssignAll(DerivedData(configs, Len(configs)), sources)

\* what a placeholder is replaced by
PlaceholderText(mergedData, criteriaId) ==
    LET value == Get(mergedData, criteriaId)
    IN  IF IsNullish(value) THEN W_undefined
        ELSE IF typeof(value) = "string" THEN <<"\"">> \o value.s \o <<"\"">>
        ELSE StringOf(value)

\* the length of the match of /\{\{(\w+)\}\}/ at position i, 0 when none
PlaceholderAt(s, i) ==
    LET e == RunEnd(s, i + 2, WordChars)
    IN  IF /\ At(s, i) = "{" /\ At(s, i + 1) = "{" /\ e >= i + 2
           /\ At(s, e + 1) = "}" /\ At(s, e + 2) = "}"
        THEN e + 3 - i ELSE 0

\* expression.replace(/\{\{(\w+)\}\}/g, ...)
RECURSIVE ReplaceFrom(_, _, _)
ReplaceFrom(s, i, mergedData) ==
    IF i > Len(s) THEN <<>>
    ELSE LET n == PlaceholderAt(s, i)
         IN  IF n > 0
             THEN PlaceholderText(mergedData, SubSeq(s, i + 2, i + n - 3))
                  \o ReplaceFrom(s, i + n, mergedData)
             ELSE <<s[i]>> \o ReplaceFrom(s, i + 1, mergedData)

replacedExpression(expression, mergedData) == ReplaceFrom(expression, 1, mergedData)

\* the identifiers of the placeholders of a template
PlaceholderIds(s) ==
    {SubSeq(s, i + 2, i + PlaceholderAt(s, i) - 3) :
        i \in {j \in 1..Len(s) : PlaceholderAt(s, j) > 0}}

\* the try block of validateEquationExpression: substitution, then the
\* wrapped text given to the ComputationEngine
tryBlock(fns, expression, mergedData) ==
    computeSafeExpression(fns, replacedExpression(expression, mergedData), mergedData)

\* an exception of the try block goes to the caller
Uncaught(r) == IF r.ok THEN Returned(Truthy(r.val)) ELSE Raised("Error")

\* return Boolean(result), and the catch block: return false
BooleanOrFalse(r) == IF r.ok THEN Returned(Truthy(r.val)) ELSE Returned(FALSE)

\* validateEquationExpression without its catch block
validateEquationExpression_noCatch(configs, fns, expression, sources) ==
    Uncaught(tryBlock(fns, expression, MergedData(configs, sources)))

\* validateEquationExpression(expression, additionalDataSources): an
\* exception of the substitution or of computeValue is caught and gives false
validateEquationExpression(configs, fns, expression, sources) ==
    BooleanOrFalse(tryBlock(fns, expression, MergedData(configs, sources)))

\* the sources after the loop that merges them: Object.assign writes to
\* mergedData, a new object, and reads each source
SourcesAfterMerge(sources) == sources

\* { expression, result, processedData }
ProcessedEquation(expression, value, processedData) ==
    [expression |-> expression, result |-> value, processedData |-> processedData]

\* the return of the try block of getProcessedEquationExpression, and the
\* return of its catch block, which gives the expression as it was passed
ProcessedEquationOutcome(expression, mergedData, r) ==
    IF r.ok
    THEN Returned(ProcessedEquation(replacedExpression(expression, mergedData),
                                    Truthy(r.val), mergedData))
    ELSE Returned(ProcessedEquation(expression, FALSE, mergedData))

\* getProcessedEquationExpression(expression, additionalDataSources)
getProcessedEquationExpression(configs, fns, expression, sources) ==
    ProcessedEquationOutcome(expression, MergedData(configs, sources),
                             tryBlock(fns, expression, MergedData(configs, sources)))

(***************************************************************************)
(* The catalog: DEFAULT_TRANSLATIONS[language][key] for the keys that       *)
(* getErrorKey gives                                                       *)
(***************************************************************************)
Languages == {"en", "pt", "es"}

\* a message is the sequence of the pieces of its text, each {{param}} of a
\* template being a piece of its own; <<>> stands for a key the catalog
\* does not have
Catalog_en(key) ==
    IF key = "errors.criteriaNotConfigured" THEN <<"Criteria ", "{{criterion}}", " is not configured">> ELSE
    IF key = "errors.computeValueFailed" THEN <<"Failed to compute value for criteria ", "{{criterion}}">> ELSE
    IF key = "errors.expression" THEN <<"Error processing expression: ", "{{message}}">> ELSE
    IF key = "errors.criteriaExists" THEN <<"Criteria ", "{{criterion}}", " must exist">> ELSE
    IF key = "errors.criteriaIn" THEN <<"Criteria ", "{{criterion}}", " must be one of ", "{{values}}">> ELSE
    IF key = "errors.criteriaIncludes" THEN <<"Criteria ", "{{criterion}}", " must include all values ", "{{values}}">> ELSE
    IF key = "errors.criteriaArray" THEN <<"Criteria ", "{{criterion}}", " must be an array">> ELSE
    IF key = "errors.numberType" THEN <<"Criteria ", "{{criterion}}", " must be a number">> ELSE
    IF key = "errors.stringType" THEN <<"Criteria ", "{{criterion}}", " must be a string">> ELSE
    IF key = "errors.booleanType" THEN <<"Criteria ", "{{criterion}}", " must be a boolean">> ELSE
    IF key = "errors.betweenRange" THEN <<"Criteria ", "{{criterion}}", " must be between ", "{{min}}", " and ", "{{max}}">> ELSE
    IF key = "errors.greaterThanEqual" THEN <<"Criteria ", "{{criterion}}", " must be greater than or equal to ", "{{value}}">> ELSE
    IF key = "errors.lessThanEqual" THEN <<"Criteria ", "{{criterion}}", " must be less than or equal to ", "{{value}}">> ELSE
    IF key = "errors.greaterThan" THEN <<"Criteria ", "{{criterion}}", " must be greater than ", "{{value}}">> ELSE
    IF key = "errors.lessThan" THEN <<"Criteria ", "{{criterion}}", " must be less than ", "{{value}}">> ELSE
    IF key = "errors.equalTo" THEN <<"Criteria ", "{{criterion}}", " must be equal to ", "{{value}}">> ELSE
    IF key = "errors.customValidationFailed" THEN <<"Custom validation failed for criteria ", "{{criterion}}">> ELSE
    <<>>

Catalog_pt(key) ==
    IF key = "errors.criteriaNotConfigured" THEN <<"Critério ", "{{criterion}}", " não configurado">> ELSE
    IF key = "errors.computeValueFailed" THEN <<"Erro ao computar valor para o critério ", "{{criterion}}">> ELSE
    IF key = "errors.expression" THEN <<"Erro ao processar expressão: ", "{{message}}">> ELSE
    IF key = "errors.criteriaExists" THEN <<"Critério ", "{{criterion}}", " deve existir">> ELSE
    IF key = "errors.criteriaIn" THEN <<"Critério ", "{{criterion}}", " deve ser um dos valores: ", "{{values}}">> ELSE
    IF key = "errors.criteriaIncludes" THEN <<"Critério ", "{{criterion}}", " deve incluir todos os valores ", "{{values}}">> ELSE
    IF key = "errors.criteriaArray" THEN <<"Critério ", "{{criterion}}", " deve ser um array">> ELSE
    IF key = "errors.numberType" THEN <<"Critério ", "{{criterion}}", " deve ser um número">> ELSE
    IF key = "errors.stringType" THEN <<"Critério ", "{{criterion}}", " deve ser uma string">> ELSE
    IF key = "errors.booleanType" THEN <<"Critério ", "{{criterion}}", " deve ser um booleano">> ELSE
    IF key = "errors.betweenRange" THEN <<"Critério ", "{{criterion}}", " deve estar entre ", "{{min}}", " e ", "{{max}}">> ELSE
    IF key = "errors.greaterThanEqual" THEN <<"Critério ", "{{criterion}}", " deve ser maior ou igual a ", "{{value}}">> ELSE
    IF key = "errors.lessThanEqual" THEN <<"Critério ", "{{criterion}}", " deve ser menor ou igual a ", "{{value}}">> ELSE
    IF key = "errors.greaterThan" THEN <<"Critério ", "{{criterion}}", " deve ser maior que ", "{{value}}">> ELSE
    IF key = "errors.lessThan" THEN <<"Critério ", "{{criterion}}", " deve ser menor que ", "{{value}}">> ELSE
    IF key = "errors.equalTo" THEN <<"Critério ", "{{criterion}}", " deve ser igual a ", "{{value}}">> ELSE
    IF key = "errors.customValidationFailed" THEN <<"Validação personalizada falhou para o critério ", "{{criterion}}">> ELSE
    <<>>

Catalog_es(key) ==
    IF key = "errors.criteriaNotConfigured" THEN <<"Criterio ", "{{criterion}}", " no configurado">> ELSE
    IF key = "errors.computeValueFailed" THEN <<"Error al calcular el valor para el criterio ", "{{criterion}}">> ELSE
    IF key = "errors.expression" THEN <<"Error al procesar la expresión: ", "{{message}}">> ELSE
    IF key = "errors.criteriaExists" THEN <<"El criterio ", "{{criterion}}", " debe existir">> ELSE
    IF key = "errors.criteriaIn" THEN <<"El criterio ", "{{criterion}}", " debe ser uno de los valores: ", "{{values}}">> ELSE
    IF key = "errors.criteriaIncludes" THEN <<"El criterio ", "{{criterion}}", " debe incluir todos los valores ", "{{values}}">> ELSE
    IF key = "errors.criteriaArray" THEN <<"El criterio ", "{{criterion}}", " debe ser un array">> ELSE
    IF key = "errors.numberType" THEN <<"El criterio ", "{{criterion}}", " debe ser un número">> ELSE
    IF key = "errors.stringType" THEN <<"El criterio ", "{{criterion}}", " debe ser una cadena de texto">> ELSE
    IF key = "errors.booleanType" THEN <<"El criterio ", "{{criterion}}", " debe ser un booleano">> ELSE
    IF key = "errors.betweenRange" THEN <<"El criterio ", "{{criterion}}", " debe estar entre ", "{{min}}", " y ", "{{max}}">> ELSE
    IF key = "errors.greaterThanEqual" THEN <<"El criterio ", "{{criterion}}", " debe ser mayor o igual a ", "{{value}}">> ELSE
    IF key = "errors.lessThanEqual" THEN <<"El criterio ", "{{criterion}}", " debe ser menor o igual a ", "{{value}}">> ELSE
    IF key = "errors.greaterThan" THEN <<"El criterio ", "{{criterion}}", " debe ser mayor que ", "{{value}}">> ELSE
    IF key = "errors.lessThan" THEN <<"El criterio ", "{{criterion}}", " debe ser menor que ", "{{value}}">> ELSE
    IF key = "errors.equalTo" THEN <<"El criterio ", "{{criterion}}", " debe ser igual a ", "{{value}}">> ELSE
    IF key = "errors.customValidationFailed" THEN <<"La validación personalizada falló para el criterio ", "{{criterion}}">> ELSE
    <<>>

DEFAULT_TRANSLATIONS(language, key) ==
    CASE language = "pt" -> Catalog_pt(key)
      [] language = "es" -> Catalog_es(key)
      [] OTHER -> Catalog_en(key)

\* DEFAULT_TRANSLATIONS[language] || DEFAULT_TRANSLATIONS.en
SelectTranslations(language) == IF language \in Languages THEN language ELSE "en"

(***************************************************************************)
(* ValidationEngine.validateCriteria and EquationResolver.validateEquation *)
(***************************************************************************)
\* a loop over the rules that is left at the first rule that raises
RECURSIVE RuleErrors_stopAtRaise(_, _, _, _, _)
RuleErrors_stopAtRaise(value, rules, i, language, errors) ==
    IF i > Len(rules) THEN errors
    ELSE LET rule == rules[i]
             r == validateRule(value, rule)
             text == DEFAULT_TRANSLATIONS(language, getErrorKey(rule))
             with(message) == [k \in DOMAIN errors \cup {rule.type} |->
                                  IF k = rule.type THEN message ELSE errors[k]]
         IN  IF ~r.ok THEN with(r.message)
             ELSE IF r.pass
             THEN RuleErrors_stopAtRaise(value, rules, i + 1, language, errors)
             ELSE RuleErrors_stopAtRaise(value, rules, i + 1, language, with(text))

\* the errors object after the rules from position i on have been checked
RECURSIVE RuleErrors(_, _, _, _, _)
RuleErrors(value, rules, i, language, errors) ==
    IF i > Len(rules) THEN errors
    ELSE LET rule == rules[i]
             r == validateRule(value, rule)
             text == DEFAULT_TRANSLATIONS(language, getErrorKey(rule))
             message == IF ~r.ok THEN r.message
                        ELSE IF text # <<>> THEN text
                        ELSE <<"Validation failed for rule ", rule.type>>
         IN  IF r.ok /\ r.pass
             THEN RuleErrors(value, rules, i + 1, language, errors)
             ELSE RuleErrors(value, rules, i + 1, language,
                             [k \in DOMAIN errors \cup {rule.type} |->
                                 IF k = rule.type THEN message ELSE errors[k]])

NoErrors == [k \in {} |-> <<>>]

\* { criteria, success, errors }; threw stands for an exception in place of
\* the result
FieldResult(id, success, errors) ==
    [threw |-> FALSE, criteria |-> id, success |-> success, errors |-> errors]

FieldThrew(id) ==
    [threw |-> TRUE, criteria |-> id, success |-> FALSE, errors |-> NoErrors]

\* const value = config.computeValue ? config.computeValue(data) : data[config.id]
CriterionValue(data, config) ==
    IF config.computeValue # "none"
    THEN ApplyDerivation(config.computeValue, data)
    ELSE Returns(Get(data, config.id))

\* the result for the errors object the loop over the rules has filled
RulesResult(id, errors) == FieldResult(id, DOMAIN errors = {}, errors)

\* validateCriteria that checks a criterion without rules for existence
validateCriteria_requireValue(data, config, language) ==
    IF ~CriterionValue(data, config).ok THEN FieldThrew(config.id)
    ELSE RulesResult(config.id,
                     RuleErrors(CriterionValue(data, config).val,
                                IF ~config.hasRules \/ Len(config.rules) = 0
                                THEN <<Rule("exists")>> ELSE config.rules,
                                1, language, NoErrors))

\* validateCriteria(data, config, translations, convertToAppropriateType):
\* the method has three parameters, the fourth argument is not read and the
\* rules see the value as the record or the derivation gives it
validateCriteria(data, config, language) ==
    IF ~CriterionValue(data, config).ok THEN FieldThrew(config.id)
    ELSE IF ~config.hasRules \/ Len(config.rules) = 0
    THEN FieldResult(config.id, TRUE, NoErrors)
    ELSE RulesResult(config.id,
                     RuleErrors(CriterionValue(data, config).val, config.rules,
                                1, language, NoErrors))

\* { criteria: config.id, success: validExpression, errors: err }
ExpressionResult(id, validExpression) ==
    FieldResult(id, validExpression,
                IF validExpression THEN NoErrors
                ELSE [k \in {"errors.expression"} |-> <<"Error">>])

\* the map callback of validateEquation once the criterion and its equation
\* have been validated
CriterionResult(config, validCriteria, expressionResult) ==
    IF \/ Len(config.id) = 0
       \/ validCriteria.threw
       \/ Len(config.equation) > 0 /\ expressionResult.kind = "error"
    THEN FieldThrew(config.id)
    ELSE IF ~validCriteria.success THEN validCriteria
    ELSE ExpressionResult(config.id,
                          IF Len(config.equation) > 0
                          THEN expressionResult.value ELSE TRUE)

\* the body of the map callback of validateEquation for one config; threw
\* stands for the ConfigurationError it raises
validateOne(configs, fns, language, config, data) ==
    CriterionResult(config, validateCriteria(data, config, language),
                    validateEquationExpression(configs, fns, config.equation,
                                               <<data>>))

\* a summary that lists every criterion among the failed ones
FieldValidationSummary_noFilter(results) ==
    LET passed == SelectSeq(results, LAMBDA r : r.success)
        successFields == [i \in 1..Len(passed) |-> passed[i].criteria]
        failedFields == [i \in 1..Len(results) |->
                            [id |-> results[i].criteria, errors |-> results[i].errors]]
    IN  IF \E i \in 1..Len(results) : results[i].threw
        THEN Raised("ConfigurationError")
        ELSE Returned([successFields |-> successFields,
                       failedFields |-> failedFields,
                       overallSuccess |-> Len(failedFields) = 0])

\* the summary validateEquation builds from the results of the callback,
\* or the ConfigurationError of the first callback that raised
FieldValidationSummary(results) ==
    LET passed == SelectSeq(results, LAMBDA r : r.success)
        failed == SelectSeq(results, LAMBDA r : ~r.success)
        successFields == [i \in 1..Len(passed) |-> passed[i].criteria]
        failedFields == [i \in 1..Len(failed) |->
                            [id |-> failed[i].criteria, errors |-> failed[i].errors]]
    IN  IF \E i \in 1..Len(results) : results[i].threw
        THEN Raised("ConfigurationError")
        ELSE Returned([successFields |-> successFields,
                       failedFields |-> failedFields,
                       overallSuccess |-> Len(failedFields) = 0])

\* validateEquation(data)
validateEquation(configs, fns, language, data) ==
    FieldValidationSummary(
        [i \in 1..Len(configs) |->
            validateOne(configs, fns, language, configs[i], data)])

(***************************************************************************)
(* EquationResolver.getProcessedQuery                                      *)
(***************************************************************************)
\* this.convertToAppropriateType(computed, config, data) for the outcome of
\* this.computeValue(criteriaId, data)
ConvertComputed(computed, config, data) ==
    IF computed.kind = "error" THEN Throws
    ELSE convertToAppropriateType(computed.value, config, data, TRUE)

\* a loop that stores the text of the raw field instead of the computed value
ComputeStep_asText(configs, config, data, failing) ==
    Returns(Str(StringOf(Get(data, config.id))))

\* the try block of the loop of getProcessedQuery for one config; failing
\* holds the ids whose flaky derivation has started to throw
ComputeStep(configs, config, data, failing) ==
    IF config.id \in failing /\ config.computeValue = "flaky" THEN Throws
    ELSE ConvertComputed(computeValue(configs, config.id, data), config, data)

\* the outcome of the try block for every config, in the order of the map
ComputeSteps(configs, data, failing) ==
    [i \in 1..Len(configs) |-> ComputeStep(configs, configs[i], data, failing)]

\* the record of the call after the loop: processedData is a new object and
\* the record is only read
DataAfterQuery(data, processedData) == data

\* processedData after the first n configs
RECURSIVE ProcessedData(_, _, _)
ProcessedData(configs, steps, n) ==
    IF n = 0 THEN EmptyRecord
    ELSE IF steps[n].ok
    THEN Assign(ProcessedData(configs, steps, n - 1),
                [k \in {configs[n].id} |-> steps[n].val])
    ELSE ProcessedData(configs, steps, n - 1)

\* what the catch block pushes to validationSummary.failedFields; the
\* message of the ConfigurationError ends with the criterion id
ComputationFailure(id) ==
    [id |-> id,
     errors |-> [k \in {"computationError"} |->
                    <<"Failed to compute value for criteria ">>]]

\* the entries pushed to failedFields for the first n configs
RECURSIVE FailedComputations(_, _, _)
FailedComputations(configs, steps, n) ==
    IF n = 0 THEN <<>>
    ELSE IF steps[n].ok THEN FailedComputations(configs, steps, n - 1)
    ELSE Append(FailedComputations(configs, steps, n - 1),
                ComputationFailure(configs[n].id))

\* a loop whose catch block leaves the summary as it was
SummaryAfterLoop_dropFailures(summary, failures) ==
    summary

\* the summary after the loop: the failures are pushed to failedFields and
\* overallSuccess is set to false when there is one
SummaryAfterLoop(summary, failures) ==
    [successFields |-> summary.successFields,
     failedFields |-> summary.failedFields \o failures,
     overallSuccess |-> summary.overallSuccess /\ Len(failures) = 0]

ProcessedQuery(processedData, validationSummary) ==
    [processedData |-> processedData, validationSummary |-> validationSummary]

\* the loop over this.criteriaConfigs and the return after it
LoopResult(configs, steps, summary) ==
    ProcessedQuery(ProcessedData(configs, steps, Len(configs)),
                   SummaryAfterLoop(summary,
                       FailedComputations(configs, steps, Len(configs))))

\* getProcessedQuery that computes the values of a record that failed too
QueryAfterValidation_alwaysCompute(configs, data, summary, steps) ==
    IF summary.kind = "error" THEN summary
    ELSE Returned(LoopResult(configs, steps, summary.value))

\* getProcessedQuery once validateEquation(data) has given summary
QueryAfterValidation(configs, data, summary, steps) ==
    IF summary.kind = "error" THEN summary
    ELSE IF ~summary.value.overallSuccess
    THEN Returned(ProcessedQuery(data, summary.value))
    ELSE Returned(LoopResult(configs, steps, summary.value))

\* getProcessedQuery(data)
getProcessedQuery(configs, fns, language, data, failing) ==
    QueryAfterValidation(configs, data,
                         validateEquation(configs, fns, language, data),
                         ComputeSteps(configs, data, failing))

(***************************************************************************)
(* AdvancedQueryResolver                                                   *)
(***************************************************************************)
CustomFunctionNames ==
    {N_emptyFn, N_notEmpty, N_isNull, N_isUndefined, N_isDefined,
     N_max, N_min, N_sum, N_avg, N_abs, N_round, N_ceil, N_floor,
     N_startsWith, N_endsWith, N_includes, N_toLowerCase, N_toUpperCase,
     N_trim, N_contains, N_any, N_all,
     N_isArray, N_isString, N_isNumber, N_isBoolean, N_isObject,
     N_gt, N_gte, N_lt, N_lte, N_eq, N_neq, N_isToday, N_isWeekend, N_match}

\* this.customFunctions as the constructor builds it
customFunctions == [n \in CustomFunctionNames |-> BuiltinFn(n)]

\* addCustomFunction(name, func): this.customFunctions[name] = func
addCustomFunction(fns, name, func) ==
    [k \in DOMAIN fns \cup {name} |-> IF k = name THEN func ELSE fns[k]]

\* { ...data, ...this.customFunctions }
createSandboxContext(fns, data) == Assign(data, fns)

\* language in DEFAULT_TRANSLATIONS ? language : 'en'
AdvancedLanguage(language) == IF language \in Languages THEN language ELSE "en"

\* the parameter a piece of a translation stands for, "none" for text
ParamOf(piece) ==
    CASE piece = "{{criterion}}" -> "criterion"
      [] piece = "{{values}}" -> "values"
      [] piece = "{{min}}" -> "min"
      [] piece = "{{max}}" -> "max"
      [] piece = "{{value}}" -> "value"
      [] piece = "{{message}}" -> "message"
      [] OTHER -> "none"

\* translation.replace(new RegExp(`{{${paramKey}}}`, 'g'), String(params[paramKey]))
\* for every key of params: the piece is replaced by the characters of the
\* parameter
RECURSIVE SubstituteParams(_, _)
SubstituteParams(pieces, params) ==
    IF Len(pieces) = 0 THEN <<>>
    ELSE (IF ParamOf(Head(pieces)) \in DOMAIN params
          THEN params[ParamOf(Head(pieces))] ELSE <<Head(pieces)>>)
         \o SubstituteParams(Tail(pieces), params)

\* translate(key, params): this.translations[key] || key, then the params
translate(language, key, params) ==
    IF DEFAULT_TRANSLATIONS(language, key) = <<>> THEN <<key>>
    ELSE SubstituteParams(DEFAULT_TRANSLATIONS(language, key), params)

\* the characters of a string inside a JSON string literal
RECURSIVE EscapeJSON(_)
EscapeJSON(s) ==
    IF Len(s) = 0 THEN <<>>
    ELSE (IF Head(s) \in {"\"", "\\"} THEN <<"\\", Head(s)>> ELSE <<Head(s)>>)
         \o EscapeJSON(Tail(s))

RECURSIVE JoinJSON(_)
\* JSON.stringify(v) of a number, string, boolean, null or array of strings
JSONOf(v) ==
    CASE v.t = "num" -> NumToChars(v)
      [] v.t = "str" -> <<"\"">> \o EscapeJSON(v.s) \o <<"\"">>
      [] v.t = "bool" -> StringOf(v)
      [] v.t = "arr" -> <<"[">> \o JoinJSON(Items(v)) \o <<"]">>
      [] OTHER -> W_null

\* the items of a list as JSON texts separated by commas
JoinJSON(list) ==
    IF Len(list) = 0 THEN <<>>
    ELSE IF Len(list) = 1 THEN JSONOf(list[1])
    ELSE JSONOf(list[1]) \o <<",">> \o JoinJSON(Tail(list))

\* JSON.stringify(rule.values)
JSONOfList(list) == <<"[">> \o JoinJSON(list) \o <<"]">>

\* the first rule of kind number, string or boolean, "none" when the
\* criterion has no such rule
TypeRuleOf(config) ==
    LET typeRules == SelectSeq(config.rules,
                               LAMBDA rule : rule.type \in {"number", "string", "boolean"})
    IN  IF config.hasRules /\ Len(typeRules) > 0 THEN typeRules[1].type ELSE "none"

\* validateCriteria: the value as it is formatted before the rules are checked
FormatBeforeRules(value, type) ==
    CASE type = "number" ->
            IF NumberOf(value).t # "nan" THEN NumberOf(value) ELSE Null
      [] type = "string" -> Str(StringOf(value))
      [] type = "boolean" -> Bool(Truthy(value))
      [] OTHER -> value

NoFailure == [key |-> "none", text |-> "none"]
Failure(key, text) == [key |-> key, text |-> text]

\* the case of the switch for one rule: the key it sets in errors and the
\* translation it sets it to, NoFailure when it sets nothing
RuleFailure(value, rule) ==
    LET isNumber == typeof(value) = "number"
        when(fails, key, text) == IF fails THEN Failure(key, text) ELSE NoFailure
    IN  CASE rule.type = "exists" ->
               when(IsNullish(value), "exists", "errors.criteriaExists")
          [] rule.type = "in" ->
               when(~includes(rule.values, value), "in", "errors.criteriaIn")
          [] rule.type = "includes" ->
               IF IsArray(value)
               THEN when(~validateIncludes(value, rule.values),
                         "includes", "errors.criteriaIncludes")
               ELSE Failure("includes", "errors.criteriaArray")
          [] rule.type = "between" ->
               when(\/ ~isNumber
                    \/ NumbersLt(value, rule.min)
                    \/ NumbersLt(rule.max, value), "between", "errors.betweenRange")
          [] rule.type = "number" -> when(~isNumber, "number", "errors.numberType")
          [] rule.type = "string" ->
               when(typeof(value) # "string", "string", "errors.stringType")
          [] rule.type = "boolean" ->
               when(typeof(value) # "boolean", "boolean", "errors.booleanType")
          [] rule.type = "gte" ->
               when(~isNumber \/ NumbersLt(value, rule.value),
                    "gte", "errors.greaterThanEqual")
          [] rule.type = "lte" ->
               when(~isNumber \/ NumbersLt(rule.value, value),
                    "lte", "errors.lessThanEqual")
          [] rule.type = "gt" ->
               when(~isNumber \/ NumbersLe(value, rule.value),
                    "gt", "errors.greaterThan")
          [] rule.type = "lt" ->
               when(~isNumber \/ NumbersLe(rule.value, value),
                    "lt", "errors.lessThan")
          [] rule.type = "eq" ->
               when(~StrictEq(value, rule.value), "eq", "errors.equalTo")
          [] rule.type = "array" ->
               when(~IsArray(value), "custom", "errors.customValidationFailed")
          [] rule.type = "custom" ->
               when(~Truthy(ApplyValidator(rule.validator, value).val),
                    "custom", "errors.customValidationFailed")
          [] OTHER -> NoFailure

\* the params given to translate for a rule
ParamsOf(rule, criteriaLabel) ==
    CASE rule.type \in {"in", "includes"} ->
            [criterion |-> criteriaLabel, values |-> JSONOfList(rule.values)]
      [] rule.type = "between" ->
            [criterion |-> criteriaLabel, min |-> StringOf(rule.min),
             max |-> StringOf(rule.max)]
      [] rule.type \in {"gte", "lte", "gt", "lt", "eq"} ->
            [criterion |-> criteriaLabel, value |-> StringOf(rule.value)]
      [] OTHER -> [criterion |-> criteriaLabel]

\* errors[key] = message
SetError(errors, key, message) ==
    [k \in DOMAIN errors \cup {key} |-> IF k = key THEN message ELSE errors[k]]

\* the loop over the rules from position i on: the errors object, and
\* whether a predicate raised, which leaves the loop
RECURSIVE CheckRules(_, _, _, _, _, _)
CheckRules(value, rules, i, language, criteriaLabel, errors) ==
    IF i > Len(rules) THEN [threw |-> FALSE, errors |-> errors]
    ELSE LET rule == rules[i]
             failure == RuleFailure(value, rule)
         IN  IF rule.type = "custom" /\ ~ApplyValidator(rule.validator, value).ok
             THEN [threw |-> TRUE, errors |-> errors]
             ELSE CheckRules(value, rules, i + 1, language, criteriaLabel,
                             IF failure.key = "none" THEN errors
                             ELSE SetError(errors, failure.key,
                                           translate(language, failure.text,
                                                     ParamsOf(rule, criteriaLabel))))

\* the return of the try block of validateCriteria, or of its catch block,
\* which adds errors.compute to what the loop had set
CriteriaResult(criteriaId, language, checked) ==
    IF checked.threw
    THEN FieldResult(criteriaId, FALSE,
                     SetError(checked.errors, "compute",
                              translate(language, "errors.computeValueFailed",
                                        [criterion |-> criteriaId])))
    ELSE FieldResult(criteriaId, DOMAIN checked.errors = {}, checked.errors)

\* AdvancedQueryResolver.validateCriteria(criteriaId, data) for a configured
\* criterion
ValidateConfigured(config, language, data) ==
    CriteriaResult(config.id, language,
        IF ~CriterionValue(data, config).ok
        THEN [threw |-> TRUE, errors |-> NoErrors]
        ELSE CheckRules(FormatBeforeRules(CriterionValue(data, config).val,
                                          TypeRuleOf(config)),
                        IF config.hasRules THEN config.rules ELSE <<>>,
                        1, language, config.id, NoErrors))

\* AdvancedQueryResolver.validateCriteria(criteriaId, data): an Error is
\* raised when the criterion is not configured
Advanced_validateCriteria(configs, language, criteriaId, data) ==
    IF ~MapHas(configs, criteriaId) THEN FieldThrew(criteriaId)
    ELSE ValidateConfigured(MapGet(configs, criteriaId), language, data)

\* validateAllFields(data)
validateAllFields(configs, language, data) ==
    FieldValidationSummary(
        [i \in 1..Len(configs) |->
            Advanced_validateCriteria(configs, language, configs[i].id, data)])

\* the end of the longest run of characters other than c that starts at i
RECURSIVE RunEndExcept(_, _, _)
RunEndExcept(s, i, c) ==
    IF i <= Len(s) /\ s[i] # c THEN RunEndExcept(s, i + 1, c) ELSE i - 1

\* the length of the match of /{{([^}]+)}}/ at position i, 0 when none
CriterionAt(s, i) ==
    LET e == RunEndExcept(s, i + 2, "}")
    IN  IF /\ At(s, i) = "{" /\ At(s, i + 1) = "{" /\ e >= i + 2
           /\ At(s, e + 1) = "}" /\ At(s, e + 2) = "}"
        THEN e + 3 - i ELSE 0

\* the ids of the matches of /{{([^}]+)}}/g
CriterionIds(s) ==
    {SubSeq(s, i + 2, i + CriterionAt(s, i) - 3) :
        i \in {j \in 1..Len(s) : CriterionAt(s, j) > 0}}

\* the value replaceCriterionWithValues reads for a criterion
ReplacedValue(configs, criterionId, data) ==
    IF MapHas(configs, criterionId)
    THEN CriterionValue(data, MapGet(configs, criterionId))
    ELSE Returns(Get(data, criterionId))

\* the text the replace callback returns for a value
CriterionText(value, type) ==
    IF value.t = "null" \/ value = Str(W_null) THEN W_null
    ELSE IF value.t = "undef" \/ value = Str(W_undefined) THEN W_undefined
    ELSE CASE type = "number" ->
                IF NumberOf(value).t # "nan" THEN StringOf(NumberOf(value))
                ELSE W_null
           [] type = "string" -> <<"\"">> \o StringOf(value) \o <<"\"">>
           [] type = "boolean" -> StringOf(Bool(Truthy(value)))
           [] typeof(value) = "string" -> <<"\"">> \o value.s \o <<"\"">>
           [] typeof(value) \in {"number", "boolean"} -> StringOf(value)
           [] typeof(value) = "function" -> W_undefined
           [] OTHER -> JSONOf(value)

\* criteria.replace(/{{([^}]+)}}/g, ...) from position i on
RECURSIVE ReplaceCriteriaFrom(_, _, _, _)
ReplaceCriteriaFrom(s, i, configs, data) ==
    IF i > Len(s) THEN <<>>
    ELSE LET n == CriterionAt(s, i)
             criterionId == SubSeq(s, i + 2, i + n - 3)
         IN  IF n > 0
             THEN CriterionText(ReplacedValue(configs, criterionId, data).val,
                                IF MapHas(configs, criterionId)
                                THEN TypeRuleOf(MapGet(configs, criterionId))
                                ELSE "none")
                  \o ReplaceCriteriaFrom(s, i + n, configs, data)
             ELSE <<s[i]>> \o ReplaceCriteriaFrom(s, i + 1, configs, data)

\* replaceCriterionWithValues(criteria, data): the text, or the exception
\* of a derivation
replaceCriterionWithValues(configs, criteria, data) ==
    IF \E id \in CriterionIds(criteria) : ~ReplacedValue(configs, id, data).ok
    THEN [ok |-> FALSE, val |-> <<>>]
    ELSE [ok |-> TRUE, val |-> ReplaceCriteriaFrom(criteria, 1, configs, data)]

\* the ids validate collects with /{{(\w+)}}/g, each once, in the order of
\* their first match from position i on
RECURSIVE UniqueCriteriaFrom(_, _, _)
UniqueCriteriaFrom(s, i, found) ==
    IF i > Len(s) THEN found
    ELSE LET n == PlaceholderAt(s, i)
             id == SubSeq(s, i + 2, i + n - 3)
         IN  IF n = 0 THEN UniqueCriteriaFrom(s, i + 1, found)
             ELSE UniqueCriteriaFrom(s, i + n,
                      IF \E k \in 1..Len(found) : found[k] = id THEN found
                      ELSE Append(found, id))

uniqueCriteria(criteria) == UniqueCriteriaFrom(criteria, 1, <<>>)

S_expression == <<"e", "x", "p", "r", "e", "s", "s", "i", "o", "n">>

\* the outcome of validate
ValidateResult(success, errors) == [success |-> success, errors |-> errors]

\* the catch block of validate: one failure under the name 'expression'.
\* The message of the exception is kept by its kind.
ExpressionFailure(language, kind) ==
    ValidateResult(FALSE,
        <<FieldResult(S_expression, FALSE,
                      [k \in {"expression"} |->
                          translate(language, "errors.expression",
                                    [message |-> <<kind>>])])>>)

Running == [kind |-> "running", value |-> Undefined, error |-> "none"]

\* the try block of validate for the outcome r of
\*   new Function(...Object.keys(sandboxContext), `... return <text>; ...`)
\* applied to the values of the context: `new Function` raises when a key
\* is not an identifier or the text does not parse, an exception of the
\* evaluation is raised again, and a text that does not terminate leaves
\* the call running
EvaluationOutcome(language, keys, r) ==
    IF \E k \in keys : ~IsIdentifierName(k)
    THEN Returned(ExpressionFailure(language, "SyntaxError"))
    ELSE IF r.st = "syntax" THEN Returned(ExpressionFailure(language, "SyntaxError"))
    ELSE IF r.st = "diverges" THEN Running
    ELSE IF r.st = "ok" THEN Returned(ValidateResult(r.val = Bool(TRUE), <<>>))
    ELSE Returned(ExpressionFailure(language, "Expression evaluation failed"))

\* validate once every criterion of the expression has passed
EvaluateCriteria(language, processedCriteria, sandboxContext) ==
    IF ~processedCriteria.ok
    THEN Returned(ExpressionFailure(language, "Error"))
    ELSE EvaluationOutcome(language, DOMAIN sandboxContext,
                           EvaluateText(processedCriteria.val, sandboxContext))

\* validate(criteria, data) for the results of validateCriteria
ValidateAfterCriteria(configs, fns, language, criteria, data, validationResults) ==
    LET validationErrors == SelectSeq(validationResults, LAMBDA r : ~r.success)
    IN  IF \E i \in 1..Len(validationResults) : validationResults[i].threw
        THEN Raised("Error")
        ELSE IF Len(validationErrors) > 0
        THEN Returned(ValidateResult(FALSE, validationErrors))
        ELSE EvaluateCriteria(language,
                              replaceCriterionWithValues(configs, criteria, data),
                              createSandboxContext(fns, data))

\* validate(criteria, data)
validate(configs, fns, language, criteria, data) ==
    ValidateAfterCriteria(configs, fns, language, criteria, data,
        [i \in 1..Len(uniqueCriteria(criteria)) |->
            Advanced_validateCriteria(configs, language,
                                      uniqueCriteria(criteria)[i], data)])

\* AdvancedQueryResolver.getProcessedQuery(criteria, data)
Advanced_getProcessedQuery(configs, criteria, data) ==
    IF replaceCriterionWithValues(configs, criteria, data).ok
    THEN Returned(Str(replaceCriterionWithValues(configs, criteria, data).val))
    ELSE Raised("Error")

(***************************************************************************)
(* The inputs of the calls                                                 *)
(***************************************************************************)
S_John == <<"J", "o", "h", "n">>
S_Jane == <<"J", "a", "n", "e">>
S_J == <<"J">>
S_inject == <<"a", "\"", " ", "|", "|", " ", "\"", "a">>
S_42 == <<"4", "2">>
S_neg3_5 == <<"-", "3", ".", "5">>
S_4a == <<"4", "a">>
S_blank == <<" ", " ">>
S_abc == <<"a", "b", "c">>
S_pad42 == <<" ", "4", "2">>
S_hi == <<" ", "h", "i", " ">>
S_value == <<"v", "a", "l", "u", "e">>

\* equation templates
T_aGe10 == <<"{", "{", "a", "}", "}", " ", ">", "=", " ", "1", "0">>
T_nameEqJohn == <<"{", "{", "n", "a", "m", "e", "}", "}", " ", "=", "=", " ", "\"", "J", "o", "h", "n", "\"">>
T_nameEqJane == <<"{", "{", "n", "a", "m", "e", "}", "}", " ", "=", "=", " ", "\"", "J", "a", "n", "e", "\"">>
T_nameEqA == <<"{", "{", "n", "a", "m", "e", "}", "}", " ", "=", "=", " ", "\"", "a", "\"">>
T_aEqB == <<"{", "{", "a", "}", "}", " ", "=", "=", " ", "{", "{", "b", "}", "}">>
T_aOrTrue == <<"{", "{", "a", "}", "}", " ", "|", "|", " ", "t", "r", "u", "e">>
T_malformed == <<"{", "{", "a", "}", "}", " ", ">", "=">>
T_bare == <<"a", " ", ">", "=", " ", "1", "0">>
T_both == <<"{", "{", "a", "}", "}", " ", ">", "=", " ", "1", "0", " ", "&", "&", " ", "{", "{", "n", "a", "m", "e", "}", "}", " ", "=", "=", " ", "\"", "J", "o", "h", "n", "\"">>
T_empty == <<>>
T_nameMinus1 == <<"{", "{", "n", "a", "m", "e", "}", "}", " ", "-", " ", "1", " ", "!", "=", " ", "0">>

Templates == {T_aGe10, T_nameEqJohn, T_nameEqJane, T_nameEqA, T_aEqB,
              T_aOrTrue, T_malformed, T_bare, T_both, T_empty}

\* extra sources of an equation
Sources ==
    {(N_a :> Num(12)), (N_a :> Num(5)), (N_a :> Null),
     (N_name :> Str(S_John)), (N_name :> Str(S_inject))}

MaxSources == 2

SourceLists == UNION {[1..n -> Sources] : n \in 0..MaxSources}

\* the templates given to getProcessedEquationExpression
ProcessedTemplates == Templates \cup {T_nameMinus1}

\* the source lists given to getProcessedEquationExpression
ShortSourceLists == {sources \in SourceLists : Len(sources) <= 1}

\* records given to validateEquation and computeValue
Records ==
    {EmptyRecord,
     (N_a :> Num(25)) @@ (N_name :> Str(S_John)),
     (N_a :> Num(-1)) @@ (N_name :> Str(S_J)),
     (N_a :> Str(S_42)),
     (N_a :> Str(S_neg3_5)),
     (N_a :> Str(S_4a)),
     (N_a :> Str(S_blank)),
     (N_a :> Str(S_abc)),
     (N_a :> Str(S_pad42)),
     (N_a :> Num(12)) @@ (N_b :> Num(7)),
     (N_b :> Str(S_hi)) @@ (N_x :> Str(S_value))}

CriteriaIds == {N_a, N_b, N_x, N_name}

\* criterion configurations
CfgAge == Config(N_a, TRUE, <<Rule("number"), RuleBetween(Num(0), Num(120))>>, "none", <<>>)
CfgName == Config(N_name, TRUE, <<Rule("string"), RuleCustom("lengthGe2")>>, "none", <<>>)
CfgNumber == Config(N_a, TRUE, <<Rule("number")>>, "none", <<>>)
CfgExistsNumber == Config(N_a, TRUE, <<Rule("exists"), Rule("number")>>, "none", <<>>)
CfgNoRules == Config(N_x, FALSE, <<>>, "none", <<>>)
CfgEmptyRules == Config(N_x, TRUE, <<>>, "none", <<>>)
CfgEquation == Config(N_x, FALSE, <<>>, "none", T_aGe10)
CfgDerived12 == Config(N_a, FALSE, <<>>, "const_12", <<>>)
CfgDerived5 == Config(N_b, TRUE, <<Rule("number")>>, "const_5", <<>>)
CfgTrimB == Config(N_x, TRUE, <<Rule("string")>>, "trim_b", <<>>)
CfgFieldB == Config(N_a, TRUE, <<Rule("number"), RuleCompare("gte", Num(0))>>, "field_b", <<>>)
CfgThrows == Config(N_x, FALSE, <<>>, "throws", <<>>)
CfgCustomThrows == Config(N_name, TRUE, <<RuleCustom("throws"), Rule("string")>>, "none", <<>>)
CfgEmptyId == Config(N_empty, TRUE, <<Rule("number")>>, "none", <<>>)
CfgPlainA == Config(N_a, FALSE, <<>>, "none", <<>>)
CfgFlaky == Config(N_b, TRUE, <<Rule("number")>>, "flaky", <<>>)
CfgEquationName == Config(N_x, FALSE, <<>>, "none", T_nameEqJohn)
CfgUnknownRule == Config(N_a, TRUE, <<Rule("regex"), Rule("number")>>, "none", <<>>)

\* the lists of configs an engine is constructed with
ConfigLists ==
    {<<>>,
     <<CfgAge, CfgName>>,
     <<CfgExistsNumber, CfgNoRules>>,
     <<CfgDerived12, CfgEmptyRules, CfgDerived5>>,
     <<CfgEquation, CfgNumber>>,
     <<CfgTrimB, CfgFieldB>>,
     <<CfgThrows, CfgName>>,
     <<CfgNumber, CfgExistsNumber, CfgNoRules>>,
     <<CfgDerived12, CfgNoRules, CfgFieldB>>,
     <<CfgCustomThrows>>,
     <<CfgEmptyId>>,
     <<CfgPlainA, CfgFlaky>>,
     <<CfgEquationName, CfgPlainA>>,
     <<CfgPlainA, CfgNoRules>>,
     <<CfgUnknownRule>>}

LanguageCodes == {"en", "pt", "xx"}

\* values and rules given to validateRule; ArrA and ArrACopy are two array
\* objects with the same items
ArrA == Arr(1, <<"a">>)
ArrAB == Arr(2, <<"a", "b">>)
ArrACopy == Arr(3, <<"a">>)

ValueInputs ==
    {Num(5), Num(1), NaN, Str(S_John), Str(<<"1">>), Undefined, ArrA, ArrAB}

RuleInputs ==
    {RuleCompare("gt", Num(1)), RuleCompare("gte", Num(5)),
     RuleCompare("lt", Num(5)), RuleCompare("lte", Num(1)),
     RuleCompare("eq", Num(5)), RuleCompare("eq", Str(S_John)),
     RuleValues("in", <<Num(1), Num(5)>>), RuleValues("in", <<ArrACopy>>),
     RuleValues("in", <<ArrA, Str(S_John)>>),
     RuleValues("includes", <<Str(<<"a">>)>>),
     RuleValues("includes", <<Str(<<"b">>), Str(<<"a">>)>>),
     RuleBetween(Num(1), Num(5)), Rule("exists"), Rule("array"),
     Rule("regex"), RuleCustom("lengthGe2"), RuleCustom("throws")}

\* names and functions given to registerFunction
RegisterNames == {N_double, N_a, N_sum, N_toString}
RegisterTags == {"f", "g"}

\* names written or deleted through the object getAvailableFunctions returns
SnapshotNames == {N_sum, N_double}

MaxRegistered == 1

(***************************************************************************)
(* The engine as a state machine: the constructor, then calls that the     *)
(* caller makes one at a time.  call is the call in progress with its      *)
(* arguments and result its outcome, until the caller takes it (Return).   *)
(* snapshot is the object the last getAvailableFunctions returned, while   *)
(* the caller holds it.                                                    *)
(***************************************************************************)
Idle == [op |-> "idle"]
NoResult == [kind |-> "none", value |-> Undefined, error |-> "none"]

\* new EquationResolver(criteriaConfigs, language)
Init ==
    /\ criteriaConfigs \in {MapOf(list) : list \in ConfigLists}
    /\ translations \in {SelectTranslations(language) : language \in LanguageCodes}
    /\ functions = InitialFunctions
    /\ snapshot = NoSnapshot
    /\ call = Idle
    /\ result = NoResult

RegisterFunction(name, tag) ==
    /\ call = Idle
    /\ Cardinality(DOMAIN functions \ BuiltinNames) < MaxRegistered
       \/ registerFunctionRefused(functions, name)
    /\ LET r == registerFunction(functions, name, CustomFn(tag, name))
       IN  /\ functions' = r.functions
           /\ snapshot' = SnapshotAfterRegister(snapshot, r.functions)
           /\ result' = IF r.error = "none" THEN Returned(Undefined)
                        ELSE Raised(r.error)
    /\ call' = [op |-> "registerFunction", name |-> name,
                fn |-> CustomFn(tag, name), before |-> functions]
    /\ UNCHANGED <<criteriaConfigs, translations>>

ComputeValue(criteriaId, data) ==
    /\ call = Idle
    /\ ~snapshot.taken
    /\ call' = [op |-> "computeValue", criteriaId |-> criteriaId, data |-> data]
    /\ result' = computeValue(criteriaConfigs, criteriaId, data)
    /\ UNCHANGED <<criteriaConfigs, translations, functions, snapshot>>

ValidateEquation(data) ==
    /\ call = Idle
    /\ ~snapshot.taken
    /\ call' = [op |-> "validateEquation", data |-> data]
    /\ result' = validateEquation(criteriaConfigs, functions, translations, data)
    /\ functions' = RegistryAfterEvaluation(functions, data)
    /\ UNCHANGED <<criteriaConfigs, translations, snapshot>>

ValidateEquationExpression(expression, sources) ==
    /\ call = Idle
    /\ ~snapshot.taken
    /\ call' = [op |-> "validateEquationExpression", expression |-> expression,
                sources |-> sources,
                sourcesAfter |-> SourcesAfterMerge(sources),
                mergedData |-> MergedData(criteriaConfigs, sources)]
    /\ result' = validateEquationExpression(criteriaConfigs, functions,
                                            expression, sources)
    /\ functions' = RegistryAfterEvaluation(functions, call'.mergedData)
    /\ UNCHANGED <<criteriaConfigs, translations, snapshot>>

GetProcessedEquationExpression(expression, sources) ==
    /\ call = Idle
    /\ ~snapshot.taken
    /\ call' = [op |-> "getProcessedEquationExpression",
                expression |-> expression, sources |-> sources,
                sourcesAfter |-> SourcesAfterMerge(sources)]
    /\ result' = getProcessedEquationExpression(criteriaConfigs, functions,
                                                expression, sources)
    /\ functions' = RegistryAfterEvaluation(functions, result'.value.processedData)
    /\ UNCHANGED <<criteriaConfigs, translations, snapshot>>

\* what a call of the public validateRule gives: the boolean of the rule,
\* whatever the predicate of a custom rule returns, or the exception
validateRuleCall(value, rule) ==
    IF rule.type = "custom"
    THEN IF ApplyValidator(rule.validator, value).ok
         THEN Returned(ApplyValidator(rule.validator, value).val)
         ELSE Raised("Error")
    ELSE IF validateRule(value, rule).ok
         THEN Returned(Bool(validateRule(value, rule).pass))
         ELSE Raised("ValidationError")

ValidateRule(value, rule) ==
    /\ call = Idle
    /\ ~snapshot.taken
    /\ call' = [op |-> "validateRule", value |-> value, rule |-> rule]
    /\ result' = validateRuleCall(value, rule)
    /\ UNCHANGED <<criteriaConfigs, translations, functions, snapshot>>

\* the ids whose derivation may have started to throw
FlakyIds(configs) ==
    {configs[i].id : i \in {j \in 1..Len(configs) : configs[j].computeValue = "flaky"}}

GetProcessedQuery(data, failing) ==
    /\ call = Idle
    /\ ~snapshot.taken
    /\ failing \subseteq FlakyIds(criteriaConfigs)
    /\ result' = getProcessedQuery(criteriaConfigs, functions, translations,
                                   data, failing)
    /\ call' = [op |-> "getProcessedQuery", data |-> data, failing |-> failing,
                dataAfter |-> IF result'.kind = "value"
                              THEN DataAfterQuery(data, result'.value.processedData)
                              ELSE data]
    /\ functions' = RegistryAfterEvaluation(functions, data)
    /\ UNCHANGED <<criteriaConfigs, translations, snapshot>>

\* getAvailableFunctions(): the returned object is kept in snapshot
GetAvailableFunctions ==
    /\ call = Idle
    /\ snapshot' = getAvailableFunctions(functions)
    /\ call' = [op |-> "getAvailableFunctions"]
    /\ result' = Returned(Undefined)
    /\ UNCHANGED <<criteriaConfigs, translations, functions>>

\* the caller runs snapshot[name] = fn, in strict code or not
SnapshotWrite(name, tag, strict) ==
    /\ call = Idle
    /\ snapshot.taken
    /\ snapshot' = SetProperty(snapshot, name, CustomFn(tag, name))
    /\ functions' = RegistryAfterWrite(functions, snapshot')
    /\ call' = [op |-> "snapshotWrite", name |-> name, strict |-> strict]
    /\ result' = IF snapshot.frozen /\ strict THEN Raised("TypeError")
                 ELSE Returned(Undefined)
    /\ UNCHANGED <<criteriaConfigs, translations>>

\* the caller runs delete snapshot[name], in strict code or not
SnapshotDelete(name, strict) ==
    /\ call = Idle
    /\ snapshot.taken
    /\ snapshot' = DeleteProperty(snapshot, name)
    /\ functions' = RegistryAfterWrite(functions, snapshot')
    /\ call' = [op |-> "snapshotDelete", name |-> name, strict |-> strict]
    /\ result' = IF snapshot.frozen /\ name \in DOMAIN snapshot.entries
                 THEN IF strict THEN Raised("TypeError") ELSE Returned(Bool(FALSE))
                 ELSE Returned(Bool(TRUE))
    /\ UNCHANGED <<criteriaConfigs, translations>>

\* the caller lets go of the snapshot; the evaluation calls, which neither
\* read nor write it, are taken when there is none
DropSnapshot ==
    /\ call = Idle
    /\ snapshot.taken
    /\ snapshot' = NoSnapshot
    /\ UNCHANGED <<criteriaConfigs, translations, functions, call, result>>

Return ==
    /\ call # Idle
    /\ call' = Idle
    /\ result' = NoResult
    /\ UNCHANGED <<criteriaConfigs, translations, functions, snapshot>>

Next ==
    \/ \E name \in RegisterNames, tag \in RegisterTags : RegisterFunction(name, tag)
    \/ \E criteriaId \in CriteriaIds, data \in Records : ComputeValue(criteriaId, data)
    \/ \E data \in Records : ValidateEquation(data)
    \/ \E data \in Records, failing \in SUBSET CriteriaIds :
          GetProcessedQuery(data, failing)
    \/ \E value \in ValueInputs, rule \in RuleInputs : ValidateRule(value, rule)
    \/ \E expression \in Templates, sources \in SourceLists :
          ValidateEquationExpression(expression, sources)
    \/ \E expression \in ProcessedTemplates, sources \in ShortSourceLists :
          GetProcessedEquationExpression(expression, sources)
    \/ GetAvailableFunctions
    \/ \E name \in SnapshotNames, tag \in RegisterTags, strict \in BOOLEAN :
          SnapshotWrite(name, tag, strict)
    \/ \E name \in SnapshotNames, strict \in BOOLEAN : SnapshotDelete(name, strict)
    \/ DropSnapshot
    \/ Return

Spec == Init /\ [][Next]_vars

(***************************************************************************)
(* AdvancedQueryResolver as a state machine over the same variables:       *)
(* criteriaConfigs is its map of criteria, translations its language and   *)
(* functions its customFunctions.  A call whose expression does not        *)
(* terminate stays in progress: its result is Running and it never         *)
(* returns.                                                                *)
(***************************************************************************)
N_firstName == <<"f", "i", "r", "s", "t", "-", "n", "a", "m", "e">>
S_active == <<"a", "c", "t", "i", "v", "e">>

T_sumGt3 == <<"s", "u", "m", " ", ">", " ", "3">>
T_loop == LoopText
T_firstName == <<"{", "{", "f", "i", "r", "s", "t", "-", "n", "a", "m", "e", "}", "}", " ", "=", "=", " ", "u", "n", "d", "e", "f", "i", "n", "e", "d">>
T_xEqTrue == <<"{", "{", "x", "}", "}", " ", "=", "=", " ", "t", "r", "u", "e">>
T_aGe10AndX == <<"{", "{", "a", "}", "}", " ", ">", "=", " ", "1", "0", " ", "&", "&", " ", "{", "{", "x", "}", "}", " ", "=", "=", " ", "\"", "a", "c", "t", "i", "v", "e", "\"">>

\* the expressions given to validate and to getProcessedQuery
CriteriaTexts ==
    {T_aGe10, T_nameEqJohn, T_both, T_malformed, T_bare, T_empty,
     T_sumGt3, T_loop, T_nameMinus1, T_firstName, T_xEqTrue, T_aGe10AndX}

CfgExistsString == Config(N_name, TRUE, <<Rule("exists"), Rule("string")>>, "none", <<>>)
CfgExistsBoolean == Config(N_x, TRUE, <<Rule("exists"), Rule("boolean")>>, "none", <<>>)
CfgExists == Config(N_x, TRUE, <<Rule("exists")>>, "none", <<>>)
CfgFirstName == Config(N_firstName, TRUE, <<Rule("exists")>>, "none", <<>>)
CfgStatus ==
    Config(N_x, TRUE,
           <<Rule("string"), RuleValues("in", <<Str(S_active), Str(S_John)>>)>>,
           "none", <<>>)

AdvancedConfigLists ==
    {<<>>,
     <<CfgAge, CfgName>>,
     <<CfgExistsNumber, CfgExists>>,
     <<CfgExistsString, CfgExistsBoolean>>,
     <<CfgAge, CfgStatus>>,
     <<CfgFirstName, CfgPlainA>>,
     <<CfgThrows, CfgNumber>>,
     <<CfgCustomThrows, CfgFieldB>>}

AdvancedRecords ==
    {EmptyRecord,
     (N_a :> Num(25)) @@ (N_name :> Str(S_John)),
     (N_a :> Num(-1)) @@ (N_name :> Str(S_J)) @@ (N_x :> Bool(TRUE)),
     (N_a :> Str(S_42)) @@ (N_x :> Str(S_active)),
     (N_a :> Str(S_abc)) @@ (N_name :> Null),
     (N_sum :> Num(5)) @@ (N_a :> Num(12)),
     (N_a :> Num(12)) @@ (N_b :> Num(7)) @@ (N_firstName :> Str(S_John))}

AdvancedNames == {N_sum, N_double}

\* new AdvancedQueryResolver(criteriaConfigs, language)
AdvancedInit ==
    /\ criteriaConfigs \in {MapOf(list) : list \in AdvancedConfigLists}
    /\ translations \in {AdvancedLanguage(language) : language \in LanguageCodes}
    /\ functions = customFunctions
    /\ snapshot = NoSnapshot
    /\ call = Idle
    /\ result = NoResult

AddCustomFunction(name, tag) ==
    /\ call = Idle
    /\ functions' = addCustomFunction(functions, name, CustomFn(tag, name))
    /\ call' = [op |-> "addCustomFunction", name |-> name]
    /\ result' = Returned(Undefined)
    /\ UNCHANGED <<criteriaConfigs, translations, snapshot>>

Validate(criteria, data) ==
    /\ call = Idle
    /\ call' = [op |-> "validate", criteria |-> criteria, data |-> data,
                sandboxContext |-> createSandboxContext(functions, data)]
    /\ result' = validate(criteriaConfigs, functions, translations, criteria, data)
    /\ UNCHANGED <<criteriaConfigs, translations, functions, snapshot>>

ValidateAllFields(data) ==
    /\ call = Idle
    /\ call' = [op |-> "validateAllFields", data |-> data]
    /\ result' = validateAllFields(criteriaConfigs, translations, data)
    /\ UNCHANGED <<criteriaConfigs, translations, functions, snapshot>>

AdvancedGetProcessedQuery(criteria, data) ==
    /\ call = Idle
    /\ call' = [op |-> "getProcessedQuery", criteria |-> criteria, data |-> data]
    /\ result' = Advanced_getProcessedQuery(criteriaConfigs, criteria, data)
    /\ UNCHANGED <<criteriaConfigs, translations, functions, snapshot>>

\* the caller takes the outcome of a call that has ended
AdvancedReturn ==
    /\ call # Idle
    /\ result # Running
    /\ call' = Idle
    /\ result' = NoResult
    /\ UNCHANGED <<criteriaConfigs, translations, functions, snapshot>>

AdvancedNext ==
    \/ \E name \in AdvancedNames, tag \in RegisterTags : AddCustomFunction(name, tag)
    \/ \E criteria \in CriteriaTexts, data \in AdvancedRecords : Validate(criteria, data)
    \/ \E data \in AdvancedRecords : ValidateAllFields(data)
    \/ \E criteria \in CriteriaTexts, data \in AdvancedRecords :
          AdvancedGetProcessedQuery(criteria, data)
    \/ AdvancedReturn

SpecAdvanced == AdvancedInit /\ [][AdvancedNext]_vars

\* every text AdvancedQueryResolver evaluates is within the modelled
\* expression language
AdvancedFragmentCovered ==
    call.op = "validate" =>
        ~UsesUnsupported(ReplaceCriteriaFrom(call.criteria, 1, criteriaConfigs,
                                             call.data))

\* every text the engine evaluates is within the modelled expression language
FragmentCovered ==
    call.op = "validateEquationExpression" =>
        ~UsesUnsupported(replacedExpression(call.expression, call.mergedData))

(***************************************************************************)
(* Properties                                                              *)
(***************************************************************************)
IsEquationCall == call.op = "validateEquationExpression"

\* the text validateEquationExpression hands to the ComputationEngine and
\* what evaluating it gives
SubstitutedText == replacedExpression(call.expression, call.mergedData)
SubstitutedOutcome ==
    EvaluateText(SubstitutedText, EvaluationContext(functions, call.mergedData))

\* the substituted text is not an expression, or its evaluation throws
EvaluationFails == SubstitutedOutcome.st \in {"syntax", "throw"}

C2_UnresolvedIsFalse ==
    /\ IsEquationCall
    /\ \E id \in PlaceholderIds(call.expression) :
          IsNullish(Get(call.mergedData, id))
    => result.kind = "value" /\ result.value = FALSE

\* the value the last source that has the property gives it
LastSourceValue(sources, k) ==
    sources[CHOOSE i \in 1..Len(sources) :
               /\ k \in DOMAIN sources[i]
               /\ \A j \in (i + 1)..Len(sources) : k \notin DOMAIN sources[j]][k]

SomeSourceDefines(sources, k) == \E i \in 1..Len(sources) : k \in DOMAIN sources[i]

HasDerivation(configs, k) ==
    MapHas(configs, k) /\ MapGet(configs, k).computeValue # "none"

\* C3: in the merge environment of validateEquationExpression every
\* identifier has the value of the last source that defines it; only when no
\* source defines it, it has the value the criterion's derivation resolves to
\* on the empty record; an identifier with neither is absent.
C3_MergeOrder ==
    IsEquationCall =>
        \A k \in CriteriaIds :
            IF SomeSourceDefines(call.sources, k)
            THEN /\ k \in DOMAIN call.mergedData
                 /\ call.mergedData[k] = LastSourceValue(call.sources, k)
            ELSE IF /\ HasDerivation(criteriaConfigs, k)
                    /\ computeValue(criteriaConfigs, k, EmptyRecord).kind = "value"
            THEN /\ k \in DOMAIN call.mergedData
                 /\ call.mergedData[k] = computeValue(criteriaConfigs, k, EmptyRecord).value
            ELSE k \notin DOMAIN call.mergedData

\* two sources give different values to the identifier of a criterion that
\* has a derivation
C3_Witness ==
    /\ IsEquationCall
    /\ Len(call.sources) = 2
    /\ N_a \in DOMAIN call.sources[1] /\ N_a \in DOMAIN call.sources[2]
    /\ call.sources[1][N_a] # call.sources[2][N_a]
    /\ HasDerivation(criteriaConfigs, N_a)
    /\ call.mergedData[N_a] = call.sources[2][N_a]

\* the template {{name}} == "L"
NameEquals(L) ==
    <<"{", "{", "n", "a", "m", "e", "}", "}", " ", "=", "=", " ", "\"">> \o L \o <<"\"">>

Literals == {S_John, S_Jane, <<"a">>}

\* C4: for a string s bound to name and a literal L, the template
\* {{name}} == "L" evaluates to true exactly when s equals L.
C4_StringEquality ==
    \A L \in Literals :
        /\ IsEquationCall
        /\ call.expression = NameEquals(L)
        /\ Get(call.mergedData, N_name).t = "str"
        => result.value = (call.mergedData[N_name].s = L)

IsValidateCall == call.op = "validateEquation"

ConfigIds == [i \in 1..Len(criteriaConfigs) |-> criteriaConfigs[i].id]
FailedIds == [i \in 1..Len(result.value.failedFields) |-> result.value.failedFields[i].id]

Occurrences(list, x) == Cardinality({i \in 1..Len(list) : list[i] = x})

PositionOf(id) == CHOOSE i \in 1..Len(ConfigIds) : ConfigIds[i] = id

InRegistrationOrder(list) ==
    \A i, j \in 1..Len(list) : i < j => PositionOf(list[i]) < PositionOf(list[j])

\* C5: in the summary validateEquation returns, every configured criterion id
\* appears exactly once, in successFields or in failedFields, each list is in
\* registration order, and overallSuccess is true exactly when failedFields
\* is empty.
C5_SummaryPartition ==
    IsValidateCall /\ result.kind = "value" =>
        /\ \A i \in 1..Len(ConfigIds) :
              Occurrences(result.value.successFields, ConfigIds[i])
                  + Occurrences(FailedIds, ConfigIds[i]) = 1
        /\ Len(result.value.successFields) + Len(FailedIds) = Len(ConfigIds)
        /\ InRegistrationOrder(result.value.successFields)
        /\ InRegistrationOrder(FailedIds)
        /\ result.value.overallSuccess = (Len(FailedIds) = 0)

\* a summary with one criterion in each list
C5_Witness ==
    /\ IsValidateCall /\ result.kind = "value"
    /\ Len(result.value.successFields) >= 1
    /\ Len(result.value.failedFields) >= 1

HasNoRules(config) == ~config.hasRules \/ Len(config.rules) = 0

\* C6 as stated: every criterion without rules is among the succeeded ones
\* of every summary validateEquation returns.
C6_NoRulesSucceeds ==
    IsValidateCall /\ result.kind = "value" =>
        \A i \in 1..Len(criteriaConfigs) :
            HasNoRules(criteriaConfigs[i]) =>
                Occurrences(result.value.successFields, criteriaConfigs[i].id) = 1

\* C6 amended: every criterion without rules and without an equation of its
\* own is among the succeeded ones of every summary validateEquation returns,
\* whatever the record holds for it.
C6_NoRulesNoEquationSucceeds ==
    IsValidateCall /\ result.kind = "value" =>
        \A i \in 1..Len(criteriaConfigs) :
            HasNoRules(criteriaConfigs[i]) /\ Len(criteriaConfigs[i].equation) = 0 =>
                /\ Occurrences(result.value.successFields, criteriaConfigs[i].id) = 1
                /\ Occurrences(FailedIds, criteriaConfigs[i].id) = 0

\* a criterion without rules and without equation succeeded although the
\* record has no value for it
C6_Witness ==
    /\ IsValidateCall /\ result.kind = "value"
    /\ \E i \in 1..Len(criteriaConfigs) :
          /\ HasNoRules(criteriaConfigs[i])
          /\ Len(criteriaConfigs[i].equation) = 0
          /\ criteriaConfigs[i].computeValue = "none"
          /\ criteriaConfigs[i].id \notin DOMAIN call.data
          /\ Occurrences(result.value.successFields, criteriaConfigs[i].id) = 1

IsComputeCall == call.op = "computeValue"

IsNumberTyped(config) ==
    \E i \in 1..Len(config.rules) : config.rules[i].type = "number"

\* C7: for a criterion with a number rule, computeValue returns the parsed
\* Number when String(value) matches -?digits(.digits)?, and the value
\* unchanged otherwise.
C7_StrictNumber ==
    /\ IsComputeCall
    /\ MapHas(criteriaConfigs, call.criteriaId)
    /\ IsNumberTyped(MapGet(criteriaConfigs, call.criteriaId))
    /\ CriterionValue(call.data, MapGet(criteriaConfigs, call.criteriaId)).ok
    => LET raw == CriterionValue(call.data, MapGet(criteriaConfigs, call.criteriaId)).val
       IN  /\ result.kind = "value"
           /\ result.value = IF MatchesNumberPattern(StringOf(raw))
                             THEN NumberOfChars(StringOf(raw)) ELSE raw

\* C8: validateEquation checks the rules on the coerced value: a criterion
\* (without equation) succeeds exactly when the value computeValue gives for
\* it passes every one of its rules.
C8_RulesSeeCoercedValue ==
    IsValidateCall /\ result.kind = "value" =>
        \A i \in 1..Len(criteriaConfigs) :
            LET config == criteriaConfigs[i]
                coerced == computeValue(criteriaConfigs, config.id, call.data)
            IN  Len(config.equation) = 0 /\ coerced.kind = "value" =>
                    (Occurrences(result.value.successFields, config.id) = 1
                     <=> DOMAIN RuleErrors(coerced.value, config.rules, 1,
                                           translations, NoErrors) = {})

IsRegisterCall == call.op = "registerFunction"

\* C9: registerFunction with a name already in the registry raises
\* ConfigurationError and leaves the registry as it was.
C9_DuplicateIsConfigurationError ==
    IsRegisterCall /\ call.name \in DOMAIN call.before =>
        /\ result.kind = "error"
        /\ result.error = "ConfigurationError"
        /\ functions = call.before

\* C10: computeValue raises ConfigurationError for an id that is not
\* configured and ComputationError when the criterion's derivation raises.
C10_DistinctErrorKinds ==
    IsComputeCall =>
        /\ ~MapHas(criteriaConfigs, call.criteriaId) =>
              result.kind = "error" /\ result.error = "ConfigurationError"
        /\ /\ MapHas(criteriaConfigs, call.criteriaId)
           /\ ~CriterionValue(call.data, MapGet(criteriaConfigs, call.criteriaId)).ok
           => result.kind = "error" /\ result.error = "ComputationError"

(***************************************************************************)
(* getProcessedQuery                                                       *)
(***************************************************************************)
IsQueryCall == call # Idle /\ call.op = "getProcessedQuery"

\* what validateEquation gives for the record of the call
QuerySummary ==
    validateEquation(criteriaConfigs, functions, translations, call.data)

QueryValidationFailed ==
    /\ IsQueryCall
    /\ QuerySummary.kind = "value"
    /\ ~QuerySummary.value.overallSuccess

QueryValidationSucceeded ==
    /\ IsQueryCall
    /\ QuerySummary.kind = "value"
    /\ QuerySummary.value.overallSuccess

\* C11: when validateEquation fails for the record, getProcessedQuery
\* returns that summary and the record it was given: same fields, same
\* values, nothing coerced.
C11_FailureKeepsRecord ==
    QueryValidationFailed =>
        /\ result.kind = "value"
        /\ result.value.validationSummary = QuerySummary.value
        /\ result.value.processedData = call.data

\* a failing record whose field would be coerced to another value
C11_Witness ==
    /\ QueryValidationFailed
    /\ result.kind = "value"
    /\ \E id \in DOMAIN call.data :
          /\ computeValue(criteriaConfigs, id, call.data).kind = "value"
          /\ computeValue(criteriaConfigs, id, call.data).value # call.data[id]

ConfiguredIds == {ConfigIds[i] : i \in 1..Len(ConfigIds)}

FailedComputationIds ==
    {id \in ConfiguredIds :
        \E i \in 1..Len(result.value.validationSummary.failedFields) :
            LET f == result.value.validationSummary.failedFields[i]
            IN  f.id = id /\ "computationError" \in DOMAIN f.errors}

\* C12: when validateEquation succeeds, getProcessedQuery returns a value,
\* never an error; the output record holds computeValue(id, data) for every
\* configured id whose computation succeeded and nothing else; every id
\* whose computation failed is in failedFields with a computationError, and
\* overallSuccess is true exactly when there is none.
C12_FreshOutputRecord ==
    QueryValidationSucceeded =>
        /\ result.kind = "value"
        /\ DOMAIN result.value.processedData = ConfiguredIds \ call.failing
        /\ \A id \in DOMAIN result.value.processedData :
              result.value.processedData[id]
                  = computeValue(criteriaConfigs, id, call.data).value
        /\ FailedComputationIds = call.failing
        /\ result.value.validationSummary.overallSuccess = (call.failing = {})

\* a successful validation followed by a computation that fails for one id
\* and succeeds, with a coerced value, for another
C12_Witness ==
    /\ QueryValidationSucceeded
    /\ result.kind = "value"
    /\ call.failing # {}
    /\ \E id \in DOMAIN result.value.processedData :
          /\ id \in DOMAIN call.data
          /\ result.value.processedData[id] # call.data[id]

\* every criterion takes its value from the field of its id
AllPassThrough ==
    \A i \in 1..Len(criteriaConfigs) : criteriaConfigs[i].computeValue = "none"

\* every placeholder of every criterion's own equation names a configured id
EquationsNameConfiguredIds ==
    \A i \in 1..Len(criteriaConfigs) :
        PlaceholderIds(criteriaConfigs[i].equation) \subseteq ConfiguredIds

QuerySucceeded ==
    /\ IsQueryCall
    /\ result.kind = "value"
    /\ result.value.validationSummary.overallSuccess

\* getProcessedQuery applied to the output record of the call
SecondQuery ==
    getProcessedQuery(criteriaConfigs, functions, translations,
                      result.value.processedData, {})

Idempotent ==
    /\ SecondQuery.kind = "value"
    /\ SecondQuery.value.validationSummary.overallSuccess
    /\ SecondQuery.value.processedData = result.value.processedData

RaisingCustomRules(config, value) ==
    {k \in 1..Len(config.rules) :
        /\ config.rules[k].type = "custom"
        /\ ~ApplyValidator(config.rules[k].validator, value).ok}

\* a criterion for which validateEquation raises ConfigurationError whatever
\* its rules are: an empty id or a derivation that throws
RaisesConfigurationError(config) ==
    Len(config.id) = 0 \/ ~CriterionValue(call.data, config).ok

\* the errors the summary holds for id
ErrorsOf(id) ==
    LET failed == result.value.failedFields
    IN  failed[CHOOSE i \in 1..Len(failed) : failed[i].id = id].errors

RulePasses(value, rule) ==
    validateRule(value, rule).ok /\ validateRule(value, rule).pass

KnownRuleKinds ==
    {"exists", "in", "between", "includes", "number", "array", "string",
     "boolean", "gt", "gte", "lt", "lte", "eq", "custom"}

HasUnknownRuleKind(config) ==
    /\ config.hasRules
    /\ \E k \in 1..Len(config.rules) : config.rules[k].type \notin KnownRuleKinds

\* C15: when a criterion has a rule of an unknown kind, validateEquation
\* raises ValidationError instead of returning a summary.
C15_UnknownKindIsFatal ==
    ( /\ IsValidateCall
      /\ \E i \in 1..Len(criteriaConfigs) : HasUnknownRuleKind(criteriaConfigs[i]) )
    => (result.kind = "error" /\ result.error = "ValidationError")

(***************************************************************************)
(* messages                                                                *)
(***************************************************************************)
PlaceholderPieces ==
    {"{{criterion}}", "{{min}}", "{{max}}", "{{value}}", "{{values}}"}

HasPlaceholder(message) ==
    \E i \in 1..Len(message) : message[i] \in PlaceholderPieces

\* C18: no message of a summary validateEquation returns holds a
\* {{criterion}}, {{min}}, {{max}}, {{value}} or {{values}} placeholder: each
\* was replaced by the criterion's name or id or by the rule's parameter.
C18_PlaceholdersSubstituted ==
    IsValidateCall /\ result.kind = "value" =>
        \A i \in 1..Len(result.value.failedFields) :
            \A k \in DOMAIN result.value.failedFields[i].errors :
                ~HasPlaceholder(result.value.failedFields[i].errors[k])

(***************************************************************************)
(* validateRule                                                            *)
(***************************************************************************)
IsRuleCall == call.op = "validateRule"

CompareKinds == {"gt", "gte", "lt", "lte", "eq"}

\* the comparison of two numbers named by a compare kind
ComparisonHolds(kind, value, operand) ==
    CASE kind = "gt" -> NumLt(operand, value)
      [] kind = "gte" -> NumLe(operand, value)
      [] kind = "lt" -> NumLt(value, operand)
      [] kind = "lte" -> NumLe(value, operand)
      [] OTHER -> value = operand

\* C16: validateRule for a gt, gte, lt, lte or eq rule returns true exactly
\* when the value is a number and the comparison with the operand holds; a
\* value that is not a number fails all five kinds.
C16_CompareRequiresNumber ==
    (IsRuleCall /\ call.rule.type \in CompareKinds) =>
        /\ result.kind = "value"
        /\ result.value = Bool(/\ call.value.t = "num"
                               /\ call.rule.value.t = "num"
                               /\ ComparisonHolds(call.rule.type, call.value,
                                                  call.rule.value))

\* the structural equality of two values: arrays with equal items are equal,
\* whatever objects they are
StructurallyEqual(x, y) ==
    IF IsArray(x) /\ IsArray(y) THEN x.s = y.s ELSE x = y

ListHas(list, value) ==
    \E i \in 1..Len(list) : StructurallyEqual(list[i], value)

\* C17: an in rule holds exactly when a listed value is structurally equal
\* to the value, and an includes rule exactly when the value is an array
\* that has, for each required value, a structurally equal item.
C17_StructuralMembership ==
    /\ (IsRuleCall /\ call.rule.type = "in") =>
          result = Returned(Bool(ListHas(call.rule.values, call.value)))
    /\ (IsRuleCall /\ call.rule.type = "includes") =>
          result = Returned(Bool(/\ IsArray(call.value)
                                 /\ \A i \in 1..Len(call.rule.values) :
                                       ListHas(Items(call.value),
                                               call.rule.values[i])))

(***************************************************************************)
(* the registry and its snapshot                                           *)
(***************************************************************************)
\* C19: a write or delete through the object getAvailableFunctions returned
\* changes neither that object nor the registry, and registerFunction does
\* not change an object returned earlier.
C19_FrozenCopy ==
    [][ /\ call'.op \in {"snapshotWrite", "snapshotDelete"} =>
              (snapshot' = snapshot /\ functions' = functions)
        /\ (call'.op = "registerFunction" /\ snapshot.taken) =>
              snapshot' = snapshot ]_vars

\* a write through a snapshot that was taken before a function was
\* registered: the snapshot lacks the function, the registry lacks the write
C19_Witness ==
    /\ call.op = "snapshotWrite"
    /\ snapshot.taken
    /\ call.name \notin DOMAIN functions
    /\ DOMAIN functions \ DOMAIN snapshot.entries # {}

(***************************************************************************)
(* frame of the evaluation calls                                           *)
(***************************************************************************)
EvaluationOps ==
    {"computeValue", "validateEquation", "getProcessedQuery",
     "validateEquationExpression", "getProcessedEquationExpression"}

IsAdvancedValidate == call.op = "validate"

\* the call of validate went on to evaluate its expression: it is still
\* running, or it returned the outcome of the evaluation
ExpressionEvaluated ==
    /\ IsAdvancedValidate
    /\ \/ result = Running
       \/ /\ result.kind = "value"
          /\ \/ Len(result.value.errors) = 0
             \/ result.value.errors[1].criteria = S_expression

\* C21: in every evaluation environment a name that is a field of the
\* record is bound to the field's value, also when a function is registered
\* under that name (ComputationEngine.computeValue and
\* AdvancedQueryResolver.createSandboxContext).
C21_DataShadowsFunctions ==
    /\ IsEquationCall =>
          \A k \in DOMAIN call.mergedData :
              EvaluationContext(functions, call.mergedData)[k] = call.mergedData[k]
    /\ ExpressionEvaluated =>
          \A k \in DOMAIN call.data : call.sandboxContext[k] = call.data[k]

IsProcessedEquationCall == call.op = "getProcessedEquationExpression"

\* C22: getProcessedEquationExpression returns the boolean that
\* validateEquationExpression returns on the same arguments, the expression
\* text with its placeholders substituted, and the merge environment.
C22_ProcessedAgreesWithEvaluate ==
    IsProcessedEquationCall =>
        /\ result.kind = "value"
        /\ result.value.result =
              validateEquationExpression(criteriaConfigs, functions,
                                         call.expression, call.sources).value
        /\ result.value.expression =
              replacedExpression(call.expression,
                                 MergedData(criteriaConfigs, call.sources))
        /\ result.value.processedData = MergedData(criteriaConfigs, call.sources)

\* C23: the evaluation of an expression terminates: every call that
\* evaluates one ends with a value or an error.
C23_EvaluationTerminates ==
    IsAdvancedValidate \/ IsEquationCall \/ IsProcessedEquationCall =>
        result.kind \in {"value", "error"}

\* the evaluation of the node applies the binary minus to an operand whose
\* conversion to Number is NaN; the right side of || and && counts only
\* when it is evaluated
RECURSIVE SubtractsNaN(_, _)
SubtractsNaN(node, context) ==
    CASE node.op \in {"lit", "id", "loop"} -> FALSE
      [] node.op \in {"not", "neg"} -> SubtractsNaN(node.a, context)
      [] node.op = "||" ->
            \/ SubtractsNaN(node.a, context)
            \/ /\ Eval(node.a, context).st = "ok"
               /\ ~Truthy(Eval(node.a, context).val)
               /\ SubtractsNaN(node.b, context)
      [] node.op = "&&" ->
            \/ SubtractsNaN(node.a, context)
            \/ /\ Eval(node.a, context).st = "ok"
               /\ Truthy(Eval(node.a, context).val)
               /\ SubtractsNaN(node.b, context)
      [] OTHER ->
            \/ SubtractsNaN(node.a, context)
            \/ SubtractsNaN(node.b, context)
            \/ /\ node.op = "-"
               /\ Eval(node.a, context).st = "ok"
               /\ Eval(node.b, context).st = "ok"
               /\ NaN \in {NumberOf(Eval(node.a, context).val),
                           NumberOf(Eval(node.b, context).val)}

\* the substituted text of the call is an expression whose evaluation
\* subtracts with an operand that is no number
CallSubtractsNaN ==
    LET mergedData == MergedData(criteriaConfigs, call.sources)
        p == ParseTokens(Lex(replacedExpression(call.expression, mergedData)))
    IN  /\ p.ok
        /\ SubtractsNaN(p.node, EvaluationContext(functions, mergedData))

\* C24: a binary numeric operator with an operand that cannot be converted
\* to a number makes the evaluation fail: the call does not get a value
\* computed from NaN, its result is the false of a failed evaluation.
C24_NumericOperandsChecked ==
    IsProcessedEquationCall /\ CallSubtractsNaN => result.value.result = FALSE

\* the last config of the list with the id
LastWithId(list, id) ==
    list[CHOOSE i \in 1..Len(list) :
            /\ list[i].id = id
            /\ \A j \in (i + 1)..Len(list) : list[j].id # id]

HasDuplicateId(list) ==
    \E i, j \in 1..Len(list) : i < j /\ list[i].id = list[j].id

\* C25: when configs passed to the constructor share an id, the map holds
\* the last of them under that id and no other: computeValue uses its
\* derivation, validateEquation its rules, and the summary of
\* validateEquation lists the id once.
C25_LastConfigWins ==
    \A list \in ConfigLists :
        criteriaConfigs = MapOf(list) =>
            \A i \in 1..Len(list) :
                LET id == list[i].id
                    last == LastWithId(list, id)
                IN  /\ MapHas(criteriaConfigs, id)
                    /\ MapGet(criteriaConfigs, id) = last
                    /\ Cardinality({k \in 1..Len(criteriaConfigs) :
                                       criteriaConfigs[k].id = id}) = 1
                    /\ call.op = "computeValue" /\ call.criteriaId = id =>
                          result = computeValue(<<last>>, id, call.data)
                    /\ call.op = "validateEquation" /\ result.kind = "value" =>
                          LET one == validateOne(criteriaConfigs, functions,
                                                 translations, last, call.data)
                          IN  /\ Occurrences(result.value.successFields, id)
                                   + Occurrences(FailedIds, id) = 1
                              /\ one.success <=>
                                    Occurrences(result.value.successFields, id) = 1
                              /\ ~one.success =>
                                    \E k \in 1..Len(result.value.failedFields) :
                                        result.value.failedFields[k]
                                            = [id |-> id, errors |-> one.errors]

\* validateEquation of an engine built from two configs of the id a, where
\* the rules of the last one fail and the first one has no rules
C25_Witness ==
    /\ criteriaConfigs = MapOf(<<CfgDerived12, CfgNoRules, CfgFieldB>>)
    /\ HasDuplicateId(<<CfgDerived12, CfgNoRules, CfgFieldB>>)
    /\ call.op = "validateEquation"
    /\ result.kind = "value"
    /\ Occurrences(FailedIds, N_a) = 1
    /\ validateOne(criteriaConfigs, functions, translations, CfgDerived12,
                   call.data).success

\* the config with its rules of kind number, string or boolean only
TypeRulesOnly(config) ==
    [config EXCEPT !.rules =
        SelectSeq(config.rules,
                  LAMBDA rule : rule.type \in {"number", "string", "boolean"})]

\* C26: the coercion of a criterion's value is the one of its first rule of
\* kind number, string or boolean, whatever rules of other kinds stand
\* before it, and the flexible one when it has no such rule: computeValue
\* gives what it gives for the criterion with its type rules alone.
C26_CoercionByFirstTypeRule ==
    IsComputeCall /\ MapHas(criteriaConfigs, call.criteriaId) =>
        result = computeValue(
                    <<TypeRulesOnly(MapGet(criteriaConfigs, call.criteriaId))>>,
                    call.criteriaId, call.data)

\* the flexible conversion as stated: the number that is left of a string
\* when one is left, else the boolean the string names, else the value
FlexibleValue(value) ==
    LET stripped == StripNonNumeric(value.s)
    IN  IF typeof(value) # "string" THEN value
        ELSE IF Len(stripped) > 0 /\ NumberOfChars(stripped).t # "nan"
        THEN NumberOfChars(stripped)
        ELSE IF toLowerCase(value.s) = W_true THEN Bool(TRUE)
        ELSE IF toLowerCase(value.s) = W_false THEN Bool(FALSE)
        ELSE value

\* C27: for a criterion without rules computeValue gives the flexible
\* conversion of the value: a string becomes the number its digits, '.' and
\* '-' spell when they spell one, else true or false when it names one,
\* else it stays; a value that is no string stays as it is.
C27_FlexibleMode ==
    /\ IsComputeCall
    /\ MapHas(criteriaConfigs, call.criteriaId)
    /\ HasNoRules(MapGet(criteriaConfigs, call.criteriaId))
    /\ CriterionValue(call.data, MapGet(criteriaConfigs, call.criteriaId)).ok
    => result = Returned(FlexibleValue(
                    CriterionValue(call.data,
                                   MapGet(criteriaConfigs, call.criteriaId)).val))

HasExistsRule(config) ==
    config.hasRules /\ \E i \in 1..Len(config.rules) : config.rules[i].type = "exists"

\* C28: validateAllFields reports a criterion with an exists rule as failed
\* whenever the record holds no value for it (absent or null), whatever
\* other rules the criterion has.
C28_ExistsFailsForMissingValue ==
    call.op = "validateAllFields" /\ result.kind = "value" =>
        \A i \in 1..Len(criteriaConfigs) :
            /\ HasExistsRule(criteriaConfigs[i])
            /\ CriterionValue(call.data, criteriaConfigs[i]).ok
            /\ IsNullish(CriterionValue(call.data, criteriaConfigs[i]).val)
            => Occurrences(FailedIds, criteriaConfigs[i].id) = 1

\* the configured criteria that a placeholder of the expression of the call
\* names and whose value fails their rules
FailingReferenced ==
    {id \in CriterionIds(call.criteria) :
        /\ MapHas(criteriaConfigs, id)
        /\ ~ValidateConfigured(MapGet(criteriaConfigs, id), translations,
                               call.data).success}

\* C29: validate checks every criterion a placeholder names before it
\* evaluates: when one of them fails its rules the call returns success
\* false with the results of exactly the failing criteria.
C29_ReferencedCriteriaChecked ==
    IsAdvancedValidate /\ result.kind = "value" /\ FailingReferenced # {} =>
        /\ ~result.value.success
        /\ {result.value.errors[k].criteria :
               k \in 1..Len(result.value.errors)} = FailingReferenced

\* fields added to a source
ExtraFields == {(N_firstName :> Num(1)), (N_b :> Num(7))}

\* the name stands somewhere in the text
AppearsIn(name, text) ==
    \E i \in 1..Len(text) :
        /\ i + Len(name) - 1 <= Len(text)
        /\ SubSeq(text, i, i + Len(name) - 1) = name

\* the sources with the field added to the last of them
WithExtraField(sources, field) ==
    [sources EXCEPT ![Len(sources)] = Assign(@, field)]

\* C30: the result of validateEquationExpression depends on the template
\* and on the values of the names it uses only: a field added to a source
\* under a name that stands nowhere in the template does not change it.
C30_UnusedFieldsDoNotInterfere ==
    IsEquationCall /\ Len(call.sources) > 0 =>
        \A field \in ExtraFields :
            /\ \A name \in DOMAIN field :
                  /\ ~AppearsIn(name, call.expression)
                  /\ name \notin DOMAIN call.mergedData
            => validateEquationExpression(criteriaConfigs, functions,
                                          call.expression,
                                          WithExtraField(call.sources, field))
                  = result

=============================================================================
